---- MODULE Spec2Model ----
(***************************************************************************)
(* A model of the Roofrix order portal: the order service and its          *)
(* read-modify-write calls against the document store, the pricing         *)
(* service, the new-order / order-review flow and the route guards.        *)
(***************************************************************************)
EXTENDS Integers, Sequences, FiniteSets, TLC

\* Bound on the logical clock: the number of timestamped service calls.
MaxClock == 3
\* Largest amount of money an order of the modelled price table can total.
MaxAmount == 150

\* order.service.ts:5
OrderStatus == {"pending", "in_progress", "review", "completed", "cancelled"}

Customers == {"c1"}
Admins == {"a1", "a2"}
Designers == {"d1", "d2"}
OrderIds == {"o1", "o2"}

\* A value that is absent (undefined / null / no document).
None == "none"

\* The e-mail address of an account.
Email(u) == u \o "@mail"

(***************************************************************************)
(* Pricing table of the pricing service.                                   *)
(***************************************************************************)
StructureCategoryIds == {"basic", "moderate", "complex"}

STRUCTURE_CATEGORIES ==
  [basic    |-> [id |-> "basic", name |-> "Basic Structure", sqRange |-> "< 30 SQs"],
   moderate |-> [id |-> "moderate", name |-> "Moderate Structure", sqRange |-> "30 - 60 SQs"],
   complex  |-> [id |-> "complex", name |-> "Complex / Commercial Structure", sqRange |-> "> 60 SQs"]]

CategoryReportTypes ==
  << [id |-> "roof_esx_only",   name |-> "Roof ESX only",      price |-> 14],
     [id |-> "roof_esx_pdf",    name |-> "Roof ESX+PDF",       price |-> 19],
     [id |-> "roof_xml_only",   name |-> "Roof XML only",      price |-> 14],
     [id |-> "roof_xml_pdf",    name |-> "Roof XML+PDF",       price |-> 19],
     [id |-> "wall_esx_x1",     name |-> "Wall ESX only (X1)", price |-> 33],
     [id |-> "wall_esx_pdf_x1", name |-> "Wall ESX+PDF (X1)",  price |-> 42],
     [id |-> "wall_esx_x2",     name |-> "Wall ESX only (X2)", price |-> 33],
     [id |-> "wall_esx_pdf_x2", name |-> "Wall ESX+PDF (X2)",  price |-> 42] >>

CATEGORY_PRICING ==
  [basic |->
     [reportTypes |-> CategoryReportTypes,
      addons |-> << [id |-> "basic_rush_2h", name |-> "2-Hour Rush", price |-> 20],
                    [id |-> "basic_fence",   name |-> "Fence",       price |-> 8],
                    [id |-> "basic_deck",    name |-> "Deck",        price |-> 8] >>],
   moderate |->
     [reportTypes |-> CategoryReportTypes,
      addons |-> << [id |-> "moderate_rush_2h", name |-> "2-Hour Rush", price |-> 30],
                    [id |-> "moderate_fence",   name |-> "Fence",       price |-> 12],
                    [id |-> "moderate_deck",    name |-> "Deck",        price |-> 12] >>],
   complex |->
     [reportTypes |-> CategoryReportTypes,
      addons |-> << [id |-> "complex_rush_2h", name |-> "2-Hour Rush", price |-> 50],
                    [id |-> "complex_fence",   name |-> "Fence",       price |-> 20],
                    [id |-> "complex_deck",    name |-> "Deck",        price |-> 20] >>]]

\* getPricingByCategory: the category with its report types and addons,
\* or None for an id that is not a structure category.
getPricingByCategory(categoryId) ==
  IF categoryId \in StructureCategoryIds
  THEN << [category    |-> STRUCTURE_CATEGORIES[categoryId],
           reportTypes |-> CATEGORY_PRICING[categoryId].reportTypes,
           addons      |-> CATEGORY_PRICING[categoryId].addons] >>
  ELSE << >>

VARIABLES
  now,             \* logical clock behind Timestamp.now() / Date.now()
  orders,          \* the orders collection: order id -> document
  calls,           \* per client session: the service call in flight
  completed,       \* history: entries of updateOrderStatus calls that resolved
  messages,        \* the messages sub-collections: sequence of documents
  reportTypeDocs,  \* the reportTypes collection: id -> document
  addonDocs,       \* the addons collection: id -> document
  repriced,        \* history: ids of pricing documents whose price was updated
  page,            \* the customer page whose component is alive
  sessionStorage,  \* the browser's sessionStorage items the pages use
  newOrder,        \* fields of the NewOrder component
  orderReview,     \* fields of the OrderReview component
  loading,         \* AuthService.loadingSubject
  currentUser,     \* AuthService.currentUserSubject (None when null)
  isAuthenticated, \* AuthService.isAuthenticatedSubject
  persisted,       \* the user of the session Firebase Auth keeps in the browser
  restored,        \* onAuthStateChanged has delivered the restored session
  signInCall,      \* AuthService.signIn in flight: its position and user
  signUpCall,      \* AuthService.signUp in flight: its position and user
  authResult,      \* the value signIn / signUp emitted last
  userDocs,        \* the users collection: uid -> profile document
  accounts,        \* the uids Firebase Auth has an account for
  authGuardVersion,\* which of the two authGuard sources the application runs
  nav,             \* the router's navigation in flight
  location,        \* the URL of the activated route
  decision,        \* history: the last value a guard returned, with what it read
  request,         \* history: the URL asked for by the navigation in flight, and by whom
  delivered,       \* the result an order query delivered last
  adminOrders,     \* fields of the AdminOrders component
  upload,          \* an uploadFileWithProgress observable and what its subscriber received
  validation       \* the file validation called last, with its result

storeVars == << now, orders, calls, completed, messages, reportTypeDocs, addonDocs, repriced >>
formVars == << page, sessionStorage, newOrder, orderReview >>
profileVars == << userDocs, accounts >>
authVars == << loading, currentUser, isAuthenticated, persisted, restored, signInCall,
              signUpCall, authResult, profileVars >>
navVars == << authGuardVersion, nav, location, decision, request >>
queryVars == << delivered >>
pageVars == << adminOrders, upload, validation >>
clientVars == << formVars, authVars, navVars, queryVars, pageVars >>

vars == << storeVars, formVars, authVars, navVars, queryVars, pageVars >>

Sessions == {"s1", "s2"}

\* The admin signed in at a client session.
SessionUser(s) == IF s = "s1" THEN "a1" ELSE "a2"

IdleCall(result) ==
  [pc |-> "idle", op |-> None, orderId |-> None, timestamp |-> 0,
   order |-> << >>, args |-> << >>, result |-> result]

\* A function extended or overwritten at one key.
Put(f, k, v) == [x \in DOMAIN f \cup {k} |-> IF x = k THEN v ELSE f[x]]

EmptyDocs == [x \in {} |-> None]

\* Faulty variant: a missing document is read as an empty order.
getOrderOrEmpty(orderId) ==
  IF orderId \in DOMAIN orders THEN << orders[orderId] >>
  ELSE << [status |-> "pending", statusTimeline |-> << >>, siteImages |-> << >>,
           designFiles |-> << >>] >>

\* firestoreService.getDocument: the document, or null (an empty sequence).
getOrder(orderId) ==
  IF orderId \in DOMAIN orders THEN << orders[orderId] >> ELSE << >>

(***************************************************************************)
(* OrderService.createOrder                                                *)
(***************************************************************************)
\* slice(-6) keeps the last six decimal digits of Date.now().
OrderNumberPeriod == 1000000

\* Date.now() at logical time t, in milliseconds: the timestamped calls are
\* half a period of the order number apart.
DateNow(t) == t * (OrderNumberPeriod \div 2)

\* Date.now().toString().slice(-6)
LastSixDigits(ms) ==
  LET r == ms % OrderNumberPeriod
  IN (IF r < 10 THEN "00000" ELSE IF r < 100 THEN "0000" ELSE IF r < 1000 THEN "000"
      ELSE IF r < 10000 THEN "00" ELSE IF r < 100000 THEN "0" ELSE "") \o ToString(r)

\* generateOrderNumber: the year and the last six digits of the clock.
generateOrderNumber(t) == "ORD-2025-" \o LastSixDigits(DateNow(t))

\* Faulty variant: the first timeline entry names the customer's email as its author.
NewOrderDocumentAsCustomer(data, createdBy, timestamp) ==
  [orderNumber       |-> generateOrderNumber(timestamp),
   customerId        |-> data.customerId,
   customerEmail     |-> data.customerEmail,
   reportType        |-> data.reportType,
   addons            |-> data.addons,
   structureCategory |-> data.structureCategory,
   basePrice         |-> data.basePrice,
   addonsTotal       |-> data.addonsTotal,
   totalPrice        |-> data.totalPrice,
   status            |-> "pending",
   statusTimeline    |-> << [status         |-> "pending",
                             changedAt      |-> timestamp,
                             changedBy      |-> data.customerEmail,
                             changedByEmail |-> data.customerEmail,
                             changedByRole  |-> "customer",
                             notes          |-> "Order created"] >>,
   siteImages         |-> << >>,
   designFiles        |-> << >>,
   assignedDesignerId    |-> None,
   assignedDesignerEmail |-> None,
   createdAt          |-> timestamp,
   completedAt        |-> 0,
   priority           |-> data.priority]

NewOrderDocument(data, createdBy, timestamp) ==
  [orderNumber       |-> generateOrderNumber(timestamp),
   customerId        |-> data.customerId,
   customerEmail     |-> data.customerEmail,
   reportType        |-> data.reportType,
   addons            |-> data.addons,
   structureCategory |-> data.structureCategory,
   basePrice         |-> data.basePrice,
   addonsTotal       |-> data.addonsTotal,
   totalPrice        |-> data.totalPrice,
   status            |-> "pending",
   statusTimeline    |-> << [status         |-> "pending",
                             changedAt      |-> timestamp,
                             changedBy      |-> createdBy,
                             changedByEmail |-> data.customerEmail,
                             changedByRole  |-> "customer",
                             notes          |-> "Order created"] >>,
   siteImages         |-> << >>,
   designFiles        |-> << >>,
   assignedDesignerId    |-> None,
   assignedDesignerEmail |-> None,
   createdAt          |-> timestamp,
   completedAt        |-> 0,
   priority           |-> data.priority]

\* createOrder(data, createdBy): one setDocument under a fresh order id.
createOrder(orderId, data, createdBy) ==
  /\ now < MaxClock
  /\ orderId \notin DOMAIN orders
  /\ now' = now + 1
  /\ orders' = Put(orders, orderId, NewOrderDocument(data, createdBy, now))

CreateOrder(orderId, data, createdBy) ==
  /\ createOrder(orderId, data, createdBy)
  /\ UNCHANGED << calls, completed, messages, reportTypeDocs, addonDocs, repriced, clientVars >>

(***************************************************************************)
(* OrderService.updateOrderStatus: getTimestamp, await getOrder, then      *)
(* await updateDocument with the timeline read before the await.           *)
(***************************************************************************)
UpdateOrderStatusBegin(s, orderId, newStatus, changedBy, changedByEmail, changedByRole, notes) ==
  /\ now < MaxClock
  /\ calls[s].pc = "idle"
  /\ now' = now + 1
  /\ LET order == getOrder(orderId) IN
       IF order = << >>
       THEN calls' = [calls EXCEPT ![s] = IdleCall("Order not found")]
       ELSE calls' = [calls EXCEPT ![s] =
              [pc |-> "write", op |-> "updateOrderStatus", orderId |-> orderId,
               timestamp |-> now, order |-> order,
               args |-> << [newStatus |-> newStatus, changedBy |-> changedBy,
                            changedByEmail |-> changedByEmail,
                            changedByRole |-> changedByRole, notes |-> notes] >>,
               result |-> None]]
  /\ UNCHANGED << orders, completed, messages, reportTypeDocs, addonDocs, repriced, clientVars >>

\* The timeline entry updateOrderStatus builds (notes || '').
StatusEntry(c) ==
  [status         |-> c.args[1].newStatus,
   changedAt      |-> c.timestamp,
   changedBy      |-> c.args[1].changedBy,
   changedByEmail |-> c.args[1].changedByEmail,
   changedByRole  |-> c.args[1].changedByRole,
   notes          |-> IF c.args[1].notes = None THEN "" ELSE c.args[1].notes]

\* Faulty variant: the status update also recomputes the total from the base price.
UpdateOrderStatusDataRetotal(doc, c) ==
  [doc EXCEPT !.status = c.args[1].newStatus,
              !.statusTimeline = Append(c.order[1].statusTimeline,
                                        [status |-> c.args[1].newStatus, changedAt |-> c.timestamp,
                                         changedBy |-> c.args[1].changedBy,
                                         changedByEmail |-> c.args[1].changedByEmail,
                                         changedByRole |-> c.args[1].changedByRole,
                                         notes |-> IF c.args[1].notes = None THEN "" ELSE c.args[1].notes]),
              !.totalPrice = doc.basePrice]

\* The fields updateOrderStatus writes into the order document.
UpdateOrderStatusData(doc, c) ==
  [doc EXCEPT !.status = c.args[1].newStatus,
              !.statusTimeline = Append(c.order[1].statusTimeline, StatusEntry(c)),
              !.completedAt = IF c.args[1].newStatus = "completed"
                              THEN c.timestamp ELSE @]

UpdateOrderStatusWrite(s) ==
  /\ calls[s].pc = "write"
  /\ calls[s].op = "updateOrderStatus"
  /\ orders' = [orders EXCEPT ![calls[s].orderId] = UpdateOrderStatusData(@, calls[s])]
  /\ calls' = [calls EXCEPT ![s] = IdleCall("ok")]
  /\ completed' = completed \cup {[orderId |-> calls[s].orderId, entry |-> StatusEntry(calls[s])]}
  /\ UNCHANGED << now, messages, reportTypeDocs, addonDocs, repriced, clientVars >>

(***************************************************************************)
(* OrderService.assignDesigner                                             *)
(***************************************************************************)
AssignDesignerBegin(s, orderId, designerId, designerEmail, assignedBy, assignedByEmail) ==
  /\ now < MaxClock
  /\ calls[s].pc = "idle"
  /\ now' = now + 1
  /\ LET order == getOrder(orderId) IN
       IF order = << >>
       THEN calls' = [calls EXCEPT ![s] = IdleCall("Order not found")]
       ELSE calls' = [calls EXCEPT ![s] =
              [pc |-> "write", op |-> "assignDesigner", orderId |-> orderId,
               timestamp |-> now, order |-> order,
               args |-> << [designerId |-> designerId, designerEmail |-> designerEmail,
                            assignedBy |-> assignedBy,
                            assignedByEmail |-> assignedByEmail] >>,
               result |-> None]]
  /\ UNCHANGED << orders, completed, messages, reportTypeDocs, addonDocs, repriced, clientVars >>

\* The timeline entry assignDesigner builds: the status read before the await.
AssignmentEntry(c) ==
  [status         |-> c.order[1].status,
   changedAt      |-> c.timestamp,
   changedBy      |-> c.args[1].assignedBy,
   changedByEmail |-> c.args[1].assignedByEmail,
   changedByRole  |-> "admin",
   notes          |-> "Assigned to designer: " \o c.args[1].designerEmail]

AssignDesignerData(doc, c) ==
  [doc EXCEPT !.assignedDesignerId = c.args[1].designerId,
              !.assignedDesignerEmail = c.args[1].designerEmail,
              !.statusTimeline = Append(c.order[1].statusTimeline, AssignmentEntry(c))]

AssignDesignerWrite(s) ==
  /\ calls[s].pc = "write"
  /\ calls[s].op = "assignDesigner"
  /\ orders' = [orders EXCEPT ![calls[s].orderId] = AssignDesignerData(@, calls[s])]
  /\ calls' = [calls EXCEPT ![s] = IdleCall("ok")]
  /\ UNCHANGED << now, completed, messages, reportTypeDocs, addonDocs, repriced, clientVars >>

(***************************************************************************)
(* OrderService.addSiteImages / addDesignFiles: read the order, then write *)
(* the list read before the await with the new URLs appended.              *)
(***************************************************************************)
AddSiteImagesBegin(s, orderId, imageUrls) ==
  /\ now < MaxClock
  /\ calls[s].pc = "idle"
  /\ now' = now + 1
  /\ LET order == getOrder(orderId) IN
       IF order = << >>
       THEN calls' = [calls EXCEPT ![s] = IdleCall("Order not found")]
       ELSE calls' = [calls EXCEPT ![s] =
              [pc |-> "write", op |-> "addSiteImages", orderId |-> orderId,
               timestamp |-> now, order |-> order,
               args |-> << [urls |-> imageUrls] >>, result |-> None]]
  /\ UNCHANGED << orders, completed, messages, reportTypeDocs, addonDocs, repriced, clientVars >>

AddSiteImagesWrite(s) ==
  /\ calls[s].pc = "write"
  /\ calls[s].op = "addSiteImages"
  /\ orders' = [orders EXCEPT ![calls[s].orderId].siteImages =
                  calls[s].order[1].siteImages \o calls[s].args[1].urls]
  /\ calls' = [calls EXCEPT ![s] = IdleCall("ok")]
  /\ UNCHANGED << now, completed, messages, reportTypeDocs, addonDocs, repriced, clientVars >>

AddDesignFilesBegin(s, orderId, fileUrls) ==
  /\ now < MaxClock
  /\ calls[s].pc = "idle"
  /\ now' = now + 1
  /\ LET order == getOrder(orderId) IN
       IF order = << >>
       THEN calls' = [calls EXCEPT ![s] = IdleCall("Order not found")]
       ELSE calls' = [calls EXCEPT ![s] =
              [pc |-> "write", op |-> "addDesignFiles", orderId |-> orderId,
               timestamp |-> now, order |-> order,
               args |-> << [urls |-> fileUrls] >>, result |-> None]]
  /\ UNCHANGED << orders, completed, messages, reportTypeDocs, addonDocs, repriced, clientVars >>

AddDesignFilesWrite(s) ==
  /\ calls[s].pc = "write"
  /\ calls[s].op = "addDesignFiles"
  /\ orders' = [orders EXCEPT ![calls[s].orderId].designFiles =
                  calls[s].order[1].designFiles \o calls[s].args[1].urls]
  /\ calls' = [calls EXCEPT ![s] = IdleCall("ok")]
  /\ UNCHANGED << now, completed, messages, reportTypeDocs, addonDocs, repriced, clientVars >>

\* updateDocument rejects (network or permission error): the call throws.
UpdateDocumentFails(s) ==
  /\ calls[s].pc = "write"
  /\ calls' = [calls EXCEPT ![s] = IdleCall("write failed")]
  /\ UNCHANGED << now, orders, completed, messages, reportTypeDocs, addonDocs, repriced, clientVars >>

(***************************************************************************)
(* OrderService.addMessage: one setDocument in orders/{id}/messages.       *)
(***************************************************************************)
AddMessage(orderId, senderId, senderRole, message) ==
  /\ now < MaxClock
  /\ now' = now + 1
  /\ messages' = Append(messages,
       [id |-> "msg_" \o ToString(now), orderId |-> orderId, senderId |-> senderId,
        senderEmail |-> Email(senderId), senderRole |-> senderRole,
        message |-> message, isRead |-> FALSE, readBy |-> << senderId >>])
  /\ UNCHANGED << orders, calls, completed, reportTypeDocs, addonDocs, repriced, clientVars >>

(***************************************************************************)
(* OrderService.markMessageAsRead: await getDocument, then await           *)
(* updateDocument with the readBy list read before the await.              *)
(***************************************************************************)
\* firestoreService.getDocument on orders/{orderId}/messages: the message,
\* or null (an empty sequence).
getMessage(orderId, messageId) ==
  SelectSeq(messages, LAMBDA m : m.orderId = orderId /\ m.id = messageId)

\* readBy.includes(userId)
ReadByIncludes(message, userId) ==
  \E i \in 1..Len(message.readBy) : message.readBy[i] = userId

MarkMessageAsReadBegin(s, orderId, messageId, userId) ==
  /\ calls[s].pc = "idle"
  /\ LET message == getMessage(orderId, messageId) IN
       IF message # << >> /\ ~ReadByIncludes(message[1], userId)
       THEN calls' = [calls EXCEPT ![s] =
              [pc |-> "write", op |-> "markMessageAsRead", orderId |-> orderId,
               timestamp |-> 0, order |-> message,
               args |-> << [messageId |-> messageId, userId |-> userId] >>,
               result |-> None]]
       ELSE calls' = [calls EXCEPT ![s] = IdleCall("ok")]
  /\ UNCHANGED << now, orders, completed, messages, reportTypeDocs, addonDocs, repriced, clientVars >>

\* The fields markMessageAsRead writes into the message document.
MarkMessageAsReadData(doc, c) ==
  [doc EXCEPT !.readBy = Append(c.order[1].readBy, c.args[1].userId),
              !.isRead = TRUE]

MarkMessageAsReadWrite(s) ==
  /\ calls[s].pc = "write"
  /\ calls[s].op = "markMessageAsRead"
  /\ messages' = [i \in DOMAIN messages |->
                    IF /\ messages[i].orderId = calls[s].orderId
                       /\ messages[i].id = calls[s].args[1].messageId
                    THEN MarkMessageAsReadData(messages[i], calls[s])
                    ELSE messages[i]]
  /\ calls' = [calls EXCEPT ![s] = IdleCall("ok")]
  /\ UNCHANGED << now, orders, completed, reportTypeDocs, addonDocs, repriced, clientVars >>

(***************************************************************************)
(* PricingService: the reportTypes and addons collections.                 *)
(***************************************************************************)
DefaultReportTypes ==
  [report_type_1 |-> [name |-> "Standard Roof Report", description |-> "ESX only", price |-> 14, isActive |-> TRUE],
   report_type_2 |-> [name |-> "Complex Roof Report",  description |-> "ESX only", price |-> 18, isActive |-> TRUE],
   report_type_3 |-> [name |-> "Standard Roof Report", description |-> "XML only", price |-> 14, isActive |-> TRUE],
   report_type_4 |-> [name |-> "Complex Roof Report",  description |-> "XML only", price |-> 18, isActive |-> TRUE]]

DefaultAddons ==
  [addon_1 |-> [name |-> "PDF",              price |-> 5,  isActive |-> TRUE],
   addon_2 |-> [name |-> "Fence",            price |-> 5,  isActive |-> TRUE],
   addon_3 |-> [name |-> "Deck",             price |-> 5,  isActive |-> TRUE],
   addon_4 |-> [name |-> "Make it 2hr Rush", price |-> 10, isActive |-> TRUE]]

\* initializeDefaultPricing: setDocument for every default document.
InitializeDefaultPricing ==
  /\ now < MaxClock
  /\ now' = now + 1
  /\ reportTypeDocs' = [k \in DOMAIN reportTypeDocs \cup DOMAIN DefaultReportTypes |->
                          IF k \in DOMAIN DefaultReportTypes
                          THEN DefaultReportTypes[k] ELSE reportTypeDocs[k]]
  /\ addonDocs' = [k \in DOMAIN addonDocs \cup DOMAIN DefaultAddons |->
                     IF k \in DOMAIN DefaultAddons THEN DefaultAddons[k] ELSE addonDocs[k]]
  /\ repriced' = repriced \ (DOMAIN DefaultReportTypes \cup DOMAIN DefaultAddons)
  /\ UNCHANGED << orders, calls, completed, messages, clientVars >>

\* updateReportTypePrice: updateDocument, which rejects for a missing document.
UpdateReportTypePrice(id, price) ==
  /\ now < MaxClock
  /\ now' = now + 1
  /\ reportTypeDocs' = IF id \in DOMAIN reportTypeDocs
                       THEN [reportTypeDocs EXCEPT ![id].price = price]
                       ELSE reportTypeDocs
  /\ repriced' = IF id \in DOMAIN reportTypeDocs THEN repriced \cup {id} ELSE repriced
  /\ UNCHANGED << orders, calls, completed, messages, addonDocs, clientVars >>

UpdateAddonPrice(id, price) ==
  /\ now < MaxClock
  /\ now' = now + 1
  /\ addonDocs' = IF id \in DOMAIN addonDocs
                  THEN [addonDocs EXCEPT ![id].price = price]
                  ELSE addonDocs
  /\ repriced' = IF id \in DOMAIN addonDocs THEN repriced \cup {id} ELSE repriced
  /\ UNCHANGED << orders, calls, completed, messages, reportTypeDocs, clientVars >>

\* addReportType: setDocument under report_type_<Date.now()>.
AddReportType(data) ==
  /\ now < MaxClock
  /\ now' = now + 1
  /\ reportTypeDocs' = Put(reportTypeDocs, "report_type_t" \o ToString(now), data)
  /\ UNCHANGED << orders, calls, completed, messages, addonDocs, repriced, clientVars >>

AddAddon(data) ==
  /\ now < MaxClock
  /\ now' = now + 1
  /\ addonDocs' = Put(addonDocs, "addon_t" \o ToString(now), data)
  /\ UNCHANGED << orders, calls, completed, messages, reportTypeDocs, repriced, clientVars >>

(***************************************************************************)
(* NewOrder component (new-order form).                                    *)
(***************************************************************************)
\* The component as constructed, before ngOnInit.
FreshNewOrder ==
  [selectedStructureCategory |-> "basic",
   structureCategoryInfo     |-> << >>,
   reportTypes               |-> << >>,
   addons                    |-> << >>,
   selectedAddons            |-> << >>,
   orderForm                 |-> [address |-> "", reportType |-> ""],
   errorMessage              |-> ""]

FreshOrderReview ==
  [orderData |-> << >>, orderConfirmed |-> FALSE, loading |-> FALSE, errorMessage |-> ""]

loadPricingForCategory(c, categoryId) ==
  LET pricing == getPricingByCategory(categoryId) IN
    IF pricing = << >> THEN c
    ELSE [c EXCEPT !.structureCategoryInfo = << pricing[1].category >>,
                   !.reportTypes = pricing[1].reportTypes,
                   !.addons = pricing[1].addons,
                   !.orderForm.reportType =
                      IF Len(pricing[1].reportTypes) > 0
                      THEN pricing[1].reportTypes[1].id ELSE @]

\* Faulty variant: the category is switched and its prices are loaded, but
\* the addon selection is kept.
loadStructureCategoryKeepingAddons(c, storage) ==
  LET storedCategory == storage.selectedStructureType IN
    IF storedCategory # None /\ storedCategory \in StructureCategoryIds
    THEN IF storedCategory # c.selectedStructureCategory \/ c.structureCategoryInfo = << >>
         THEN loadPricingForCategory([c EXCEPT !.selectedStructureCategory = storedCategory],
                                     storedCategory)
         ELSE c
    ELSE IF c.structureCategoryInfo = << >>
         THEN loadPricingForCategory(c, c.selectedStructureCategory)
         ELSE c

loadStructureCategoryFromStorage(c, storage) ==
  LET storedCategory == storage.selectedStructureType IN
    IF storedCategory # None /\ storedCategory \in StructureCategoryIds
    THEN IF storedCategory # c.selectedStructureCategory \/ c.structureCategoryInfo = << >>
         THEN [loadPricingForCategory([c EXCEPT !.selectedStructureCategory = storedCategory],
                                      storedCategory)
                 EXCEPT !.selectedAddons = << >>]
         ELSE c
    ELSE IF c.structureCategoryInfo = << >>
         THEN loadPricingForCategory(c, c.selectedStructureCategory)
         ELSE c

\* selectedAddons is a Map: has / delete / set keep insertion order.
HasAddon(selected, id) == \E i \in 1..Len(selected) : selected[i].id = id

toggleAddon(c, addon) ==
  IF HasAddon(c.selectedAddons, addon.id)
  THEN [c EXCEPT !.selectedAddons = SelectSeq(@, LAMBDA a : a.id # addon.id)]
  ELSE [c EXCEPT !.selectedAddons = Append(@, addon)]

\* getSelectedReportType: the first report type with the form's id, if any.
getSelectedReportType(c) ==
  SelectSeq(c.reportTypes, LAMBDA t : t.id = c.orderForm.reportType)

\* Faulty variant: the base price of the first listed report type, not the selected one.
getBasePriceOfFirst(c) ==
  IF c.reportTypes = << >> THEN 0 ELSE c.reportTypes[1].price

getBasePrice(c) ==
  IF getSelectedReportType(c) = << >> THEN 0 ELSE getSelectedReportType(c)[1].price

RECURSIVE SumPrices(_)
SumPrices(items) ==
  IF items = << >> THEN 0 ELSE items[1].price + SumPrices(Tail(items))

getAddonsTotal(c) == SumPrices(c.selectedAddons)

getTotalPrice(c) == getBasePrice(c) + getAddonsTotal(c)

\* The orderData object onSubmit stores for the review page.
SubmittedOrderData(c) ==
  [address     |-> c.orderForm.address,
   reportType  |-> getSelectedReportType(c)[1],
   addons      |-> c.selectedAddons,
   structureCategory |-> c.selectedStructureCategory,
   structureCategoryName |-> IF c.structureCategoryInfo = << >>
                             THEN c.selectedStructureCategory
                             ELSE c.structureCategoryInfo[1].name,
   basePrice   |-> getBasePrice(c),
   addonsTotal |-> getAddonsTotal(c),
   totalPrice  |-> getTotalPrice(c)]

\* JSON.stringify / JSON.parse of orderData.  Strings stay strings, a number
\* becomes its decimal text and is read back from it, an array keeps its
\* elements in order.
NumberText(n) == ToString(n)
ParseNumber(text) == CHOOSE n \in 0..MaxAmount : ToString(n) = text

StringifyItems(items) ==
  [i \in 1..Len(items) |->
     [id |-> items[i].id, name |-> items[i].name, price |-> NumberText(items[i].price)]]

ParseItems(items) ==
  [i \in 1..Len(items) |->
     [id |-> items[i].id, name |-> items[i].name, price |-> ParseNumber(items[i].price)]]

JSONStringify(value) ==
  [address     |-> value.address,
   reportType  |-> StringifyItems(<< value.reportType >>)[1],
   addons      |-> StringifyItems(value.addons),
   structureCategory |-> value.structureCategory,
   structureCategoryName |-> value.structureCategoryName,
   basePrice   |-> NumberText(value.basePrice),
   addonsTotal |-> NumberText(value.addonsTotal),
   totalPrice  |-> NumberText(value.totalPrice)]

JSONParse(text) ==
  [address     |-> text.address,
   reportType  |-> ParseItems(<< text.reportType >>)[1],
   addons      |-> ParseItems(text.addons),
   structureCategory |-> text.structureCategory,
   structureCategoryName |-> text.structureCategoryName,
   basePrice   |-> ParseNumber(text.basePrice),
   addonsTotal |-> ParseNumber(text.addonsTotal),
   totalPrice  |-> ParseNumber(text.totalPrice)]

\* DashboardLayout.selectStructure / Home.selectStructure: store the structure
\* type and navigate to the new-order page with the type query parameter.
\* A NewOrder component that is alive only sees the query parameters change.
SelectStructure(structureType) ==
  /\ currentUser # None
  /\ sessionStorage' = [sessionStorage EXCEPT !.selectedStructureType = structureType]
  /\ page' = "new-order"
  /\ newOrder' =
       IF page = "new-order"
       THEN loadStructureCategoryFromStorage(newOrder, sessionStorage')
       ELSE loadStructureCategoryFromStorage(
              loadStructureCategoryFromStorage(FreshNewOrder, sessionStorage'),
              sessionStorage')
  /\ orderReview' = FreshOrderReview
  /\ UNCHANGED << storeVars, queryVars, pageVars, authVars, navVars >>

\* Navigation to the new-order page without a type parameter: ngOnInit.
OpenNewOrder ==
  /\ currentUser # None
  /\ page # "new-order"
  /\ page' = "new-order"
  /\ newOrder' = loadStructureCategoryFromStorage(FreshNewOrder, sessionStorage)
  /\ orderReview' = FreshOrderReview
  /\ UNCHANGED << sessionStorage, storeVars, queryVars, pageVars, authVars, navVars >>

EnterAddress(address) ==
  /\ page = "new-order"
  /\ newOrder.orderForm.address # address
  /\ newOrder' = [newOrder EXCEPT !.orderForm.address = address]
  /\ UNCHANGED << page, sessionStorage, orderReview, storeVars, queryVars, pageVars, authVars, navVars >>

\* The user picks one of the listed report types.
SelectReportType(id) ==
  /\ page = "new-order"
  /\ \E i \in 1..Len(newOrder.reportTypes) : newOrder.reportTypes[i].id = id
  /\ newOrder.orderForm.reportType # id
  /\ newOrder' = [newOrder EXCEPT !.orderForm.reportType = id]
  /\ UNCHANGED << page, sessionStorage, orderReview, storeVars, queryVars, pageVars, authVars, navVars >>

\* The user clicks the i-th listed addon.
ToggleAddon(i) ==
  /\ page = "new-order"
  /\ i \in 1..Len(newOrder.addons)
  /\ newOrder' = toggleAddon(newOrder, newOrder.addons[i])
  /\ UNCHANGED << page, sessionStorage, orderReview, storeVars, queryVars, pageVars, authVars, navVars >>

\* NewOrder.onSubmit, with the review page's ngOnInit after the navigation.
OnSubmit ==
  /\ page = "new-order"
  /\ IF newOrder.orderForm.address = "" \/ newOrder.orderForm.reportType = ""
     THEN UNCHANGED << page, sessionStorage, newOrder, orderReview >>
     ELSE IF getSelectedReportType(newOrder) = << >>
     THEN /\ newOrder' = [newOrder EXCEPT !.errorMessage = "Please select a report type"]
          /\ UNCHANGED << page, sessionStorage, orderReview >>
     ELSE /\ sessionStorage' = [sessionStorage EXCEPT
                                  !.orderData = << JSONStringify(SubmittedOrderData(newOrder)) >>]
          /\ page' = "order-review"
          /\ newOrder' = FreshNewOrder
          /\ orderReview' = [FreshOrderReview EXCEPT
                               !.orderData = << JSONParse(sessionStorage'.orderData[1]) >>]
  /\ UNCHANGED << storeVars, queryVars, pageVars, authVars, navVars >>

\* Navigation to the order-review page by URL: OrderReview.ngOnInit.
OpenOrderReview ==
  /\ currentUser # None
  /\ page # "order-review"
  /\ newOrder' = FreshNewOrder
  /\ IF sessionStorage.orderData # << >>
     THEN /\ page' = "order-review"
          /\ orderReview' = [FreshOrderReview EXCEPT
                               !.orderData = << JSONParse(sessionStorage.orderData[1]) >>]
     ELSE /\ page' = "products"
          /\ orderReview' = FreshOrderReview
  /\ UNCHANGED << sessionStorage, storeVars, queryVars, pageVars, authVars, navVars >>

\* The CreateOrderData confirmOrder hands to createOrder.
ConfirmOrderData(user, orderData) ==
  [customerId        |-> user,
   customerEmail     |-> Email(user),
   reportType        |-> orderData.reportType,
   addons            |-> orderData.addons,
   structureCategory |-> IF orderData.structureCategory = "" THEN "basic"
                         ELSE orderData.structureCategory,
   basePrice         |-> orderData.basePrice,
   addonsTotal       |-> orderData.addonsTotal,
   totalPrice        |-> orderData.totalPrice,
   priority          |-> "medium"]

\* OrderReview.confirmOrder when createOrder resolves.
ConfirmOrder(orderId) ==
  /\ page = "order-review"
  /\ ~orderReview.orderConfirmed
  /\ currentUser # None
  /\ createOrder(orderId, ConfirmOrderData(currentUser, orderReview.orderData[1]), currentUser)
  /\ orderReview' = [orderReview EXCEPT !.orderConfirmed = TRUE, !.loading = FALSE,
                                        !.errorMessage = ""]
  /\ sessionStorage' = [sessionStorage EXCEPT !.orderData = << >>]
  /\ UNCHANGED << page, newOrder, calls, completed, messages, reportTypeDocs, addonDocs,
                  repriced, authVars, navVars, queryVars, pageVars >>

\* OrderReview.confirmOrder when createOrder rejects.
ConfirmOrderFails ==
  /\ page = "order-review"
  /\ ~orderReview.orderConfirmed
  /\ currentUser # None
  /\ orderReview' = [orderReview EXCEPT !.loading = FALSE,
                       !.errorMessage = "Failed to create order. Please try again."]
  /\ UNCHANGED << page, sessionStorage, newOrder, storeVars, queryVars, pageVars, authVars, navVars >>

(***************************************************************************)
(* User profiles, AuthService, routes and route guards.                    *)
(***************************************************************************)
\* The accounts: a customer, an admin, a designer, and an account whose
\* users/{uid} profile document does not exist.
Users == {"c1", "a1", "d1", "n1"}

UserProfiles ==
  [c1 |-> [role |-> "customer", isActive |-> TRUE],
   a1 |-> [role |-> "admin",    isActive |-> TRUE],
   d1 |-> [role |-> "designer", isActive |-> TRUE]]

\* userProfileListener(uid) | take(1): the profile document, or null.
userProfile(uid) ==
  IF uid \in DOMAIN userDocs THEN << userDocs[uid] >> ELSE << >>

\* The document createUserProfile stores.
NewUserProfile(data, timestamp) ==
  [role |-> data.role, isActive |-> TRUE, lastLoginAt |-> timestamp, assignedOrders |-> << >>]

\* The users collection at the start: the profiles above and those of the
\* designers orders are assigned to.  A profile without assignedOrders is
\* read as one with an empty list.
InitialUserDocs ==
  [u \in DOMAIN UserProfiles \cup Designers |->
     NewUserProfile([role |-> IF u \in DOMAIN UserProfiles THEN UserProfiles[u].role
                              ELSE "designer"], 0)]

IdleSignIn == [pc |-> "idle", user |-> None]
IdleSignUp == [pc |-> "idle", user |-> None]
NoResult == [op |-> None, success |-> FALSE, uid |-> None]

\* A URL is the sequence of its path segments; "/" is the empty sequence.
PublicPaths == {"features", "pricing", "about", "contact", "signin", "signup", "404"}

DashboardChildren ==
  << [path |-> << "customer", "orders", "products", ":productId", "review" >>, roles |-> {"customer"}],
     [path |-> << "customer", "orders", "products", ":productId" >>,           roles |-> {"customer"}],
     [path |-> << "customer", "orders", "products" >>,                         roles |-> {"customer"}],
     [path |-> << "customer", "orders", ":orderId" >>,                         roles |-> {"customer"}],
     [path |-> << "customer", "orders" >>,                                     roles |-> {"customer"}],
     [path |-> << "customer", "new-order" >>,                                  roles |-> {"customer"}],
     [path |-> << "customer", "order-review" >>,                               roles |-> {"customer"}],
     [path |-> << "admin", "orders" >>,                                        roles |-> {"admin"}] >>

IsParameter(segment) == segment \in {":productId", ":orderId"}

MatchesPath(path, segments) ==
  /\ Len(path) = Len(segments)
  /\ \A i \in 1..Len(path) : IsParameter(path[i]) \/ path[i] = segments[i]

\* The children of 'dashboard' that match, in the order of the table.
MatchingChildren(segments) ==
  SelectSeq(DashboardChildren, LAMBDA r : MatchesPath(r.path, segments))

NotFoundUrl == << "404" >>
SignInUrl == << "signin" >>
HomeUrl == << >>

\* The route the router recognizes for a URL, after the redirects of the
\* table: its URL, whether authGuard protects it, and the roles of its
\* role guard.
Recognize(url) ==
  LET public(u) == [url |-> u, guarded |-> FALSE, roles |-> {}]
      rest == IF url = << "dashboard" >>
              THEN << "customer", "orders", "products" >>
              ELSE Tail(url)
  IN IF url = << >> THEN public(url)
     ELSE IF Len(url) = 1 /\ url[1] \in PublicPaths THEN public(url)
     ELSE IF url[1] = "dashboard" /\ MatchingChildren(rest) # << >>
          THEN [url     |-> << "dashboard" >> \o rest,
                guarded |-> TRUE,
                roles   |-> MatchingChildren(rest)[1].roles]
     ELSE public(NotFoundUrl)

\* No navigation in flight: nothing asked for.
NoRequest == [url |-> << >>, by |-> None]

IdleNav == [pc |-> "idle", url |-> << >>, roles |-> {}, user |-> None]

NoDecision ==
  [guard |-> None, allowed |-> FALSE, loading |-> FALSE, authenticated |-> FALSE,
   user |-> None, url |-> << >>, roles |-> {}, redirect |-> << >>, returnUrl |-> << >>]

\* router.navigate / a link / the address bar: a new navigation replaces
\* the one in flight.
StartNavigation(url) ==
  LET route == Recognize(url) IN
    [pc    |-> IF route.guarded THEN "authGuard" ELSE "activate",
     url   |-> route.url,
     roles |-> route.roles,
     user  |-> None]

Navigate(url) ==
  /\ nav' = StartNavigation(url)
  /\ request' = [url |-> << url >>, by |-> IF restored THEN currentUser ELSE None]
  /\ UNCHANGED << authGuardVersion, location, decision, storeVars, queryVars, pageVars, formVars, authVars >>

\* The browser loads the application at a URL: every service is constructed
\* anew; Firebase Auth still holds the persisted session.
LoadApplication(url) ==
  /\ loading' = TRUE
  /\ currentUser' = None
  /\ isAuthenticated' = FALSE
  /\ restored' = FALSE
  /\ signInCall' = IdleSignIn
  /\ signUpCall' = IdleSignUp
  /\ authResult' = NoResult
  /\ nav' = StartNavigation(url)
  /\ location' = << >>
  /\ decision' = NoDecision
  /\ request' = [url |-> << url >>, by |-> None]
  /\ UNCHANGED << persisted, profileVars, authGuardVersion, storeVars, queryVars, pageVars, formVars >>

\* onAuthStateChanged callback.
authStateChanged(firebaseUser) ==
  /\ currentUser' = firebaseUser
  /\ isAuthenticated' = (firebaseUser # None)
  /\ loading' = FALSE

\* The first onAuthStateChanged after construction: the restored session.
RestoreSession ==
  /\ ~restored
  /\ restored' = TRUE
  /\ authStateChanged(persisted)
  /\ UNCHANGED << persisted, signInCall, signUpCall, authResult, profileVars, navVars,
                  storeVars, queryVars, pageVars, formVars >>

\* AuthService.signIn up to signInWithEmailAndPassword.
SignInBegin(user) ==
  /\ restored
  /\ signInCall.pc = "idle"
  /\ loading' = TRUE
  /\ signInCall' = [pc |-> "signInWithEmailAndPassword", user |-> user]
  /\ UNCHANGED << currentUser, isAuthenticated, persisted, restored, signUpCall, authResult,
                  profileVars, navVars, storeVars, queryVars, pageVars, formVars >>

\* The credential is accepted: Firebase signs the user in and notifies the
\* listener; signIn goes on to updateLastLogin.
SignInAccepted ==
  /\ signInCall.pc = "signInWithEmailAndPassword"
  /\ signInCall.user \in accounts
  /\ persisted' = signInCall.user
  /\ authStateChanged(signInCall.user)
  /\ signInCall' = [signInCall EXCEPT !.pc = "updateLastLogin"]
  /\ UNCHANGED << restored, signUpCall, authResult, profileVars, navVars, storeVars, queryVars, pageVars, formVars >>

\* The credential is rejected: catchError.
SignInRejected ==
  /\ signInCall.pc = "signInWithEmailAndPassword"
  /\ loading' = FALSE
  /\ signInCall' = IdleSignIn
  /\ authResult' = [op |-> "signIn", success |-> FALSE, uid |-> None]
  /\ UNCHANGED << currentUser, isAuthenticated, persisted, restored, signUpCall, profileVars,
                  navVars, storeVars, queryVars, pageVars, formVars >>

\* Faulty variant: signIn reports whether the last-login update went through.
signInResultOfUpdate(lastLoginUpdated) ==
  [op |-> "signIn", success |-> lastLoginUpdated, uid |-> None]

\* What signIn emits once the credential was accepted: success, whether or
\* not updateLastLogin went through.
signInResult(lastLoginUpdated) ==
  [op |-> "signIn", success |-> TRUE, uid |-> None]

\* updateLastLogin resolved: the profile exists and has its lastLoginAt set.
SignInEnd ==
  /\ signInCall.pc = "updateLastLogin"
  /\ signInCall.user \in DOMAIN userDocs
  /\ userDocs' = [userDocs EXCEPT ![signInCall.user].lastLoginAt = now]
  /\ loading' = FALSE
  /\ signInCall' = IdleSignIn
  /\ authResult' = signInResult(TRUE)
  /\ UNCHANGED << currentUser, isAuthenticated, persisted, restored, signUpCall, accounts,
                  navVars, storeVars, queryVars, pageVars, formVars >>

\* updateLastLogin rejected (no profile document, or Firestore failed): the
\* inner catch.
SignInLastLoginFails ==
  /\ signInCall.pc = "updateLastLogin"
  /\ loading' = FALSE
  /\ signInCall' = IdleSignIn
  /\ authResult' = signInResult(FALSE)
  /\ UNCHANGED << currentUser, isAuthenticated, persisted, restored, signUpCall, profileVars,
                  navVars, storeVars, queryVars, pageVars, formVars >>

\* AuthService.signUp up to createUserWithEmailAndPassword.
SignUpBegin(user) ==
  /\ restored
  /\ signUpCall.pc = "idle"
  /\ loading' = TRUE
  /\ signUpCall' = [pc |-> "createUserWithEmailAndPassword", user |-> user]
  /\ UNCHANGED << currentUser, isAuthenticated, persisted, restored, signInCall, authResult,
                  profileVars, navVars, storeVars, queryVars, pageVars, formVars >>

\* Firebase creates the account and signs the new user in; signUp goes on to
\* createUserProfile.
SignUpAccountCreated ==
  /\ signUpCall.pc = "createUserWithEmailAndPassword"
  /\ signUpCall.user \notin accounts
  /\ accounts' = accounts \cup {signUpCall.user}
  /\ persisted' = signUpCall.user
  /\ authStateChanged(signUpCall.user)
  /\ signUpCall' = [signUpCall EXCEPT !.pc = "createUserProfile"]
  /\ UNCHANGED << restored, signInCall, authResult, userDocs, navVars, storeVars, queryVars, pageVars, formVars >>

\* Firebase rejects the sign-up (the email is in use, the password is weak):
\* catchError.
SignUpRejected ==
  /\ signUpCall.pc = "createUserWithEmailAndPassword"
  /\ loading' = FALSE
  /\ signUpCall' = IdleSignUp
  /\ authResult' = [op |-> "signUp", success |-> FALSE, uid |-> None]
  /\ UNCHANGED << currentUser, isAuthenticated, persisted, restored, signInCall, profileVars,
                  navVars, storeVars, queryVars, pageVars, formVars >>

\* Faulty variant: the profile of a new account is created inactive.
signUpProfileInactive(data, timestamp) ==
  [role |-> "customer", isActive |-> FALSE, lastLoginAt |-> timestamp, assignedOrders |-> << >>]

\* The profile signUp has createUserProfile store: role 'customer'.
signUpProfile(data, timestamp) ==
  NewUserProfile([role |-> "customer", email |-> data.email], timestamp)

\* createUserProfile resolved.
SignUpProfileCreated ==
  /\ signUpCall.pc = "createUserProfile"
  /\ userDocs' = Put(userDocs, signUpCall.user,
                     signUpProfile([email |-> Email(signUpCall.user)], now))
  /\ loading' = FALSE
  /\ signUpCall' = IdleSignUp
  /\ authResult' = [op |-> "signUp", success |-> TRUE, uid |-> signUpCall.user]
  /\ UNCHANGED << currentUser, isAuthenticated, persisted, restored, signInCall, accounts,
                  navVars, storeVars, queryVars, pageVars, formVars >>

\* createUserProfile rejected: the account exists, the profile does not.
SignUpProfileFails ==
  /\ signUpCall.pc = "createUserProfile"
  /\ loading' = FALSE
  /\ signUpCall' = IdleSignUp
  /\ authResult' = [op |-> "signUp", success |-> FALSE, uid |-> signUpCall.user]
  /\ UNCHANGED << currentUser, isAuthenticated, persisted, restored, signInCall, profileVars,
                  navVars, storeVars, queryVars, pageVars, formVars >>

\* AuthService.signOutUser: Firebase signs out, the listener is notified and
\* the service navigates to '/'.
SignOutUser ==
  /\ restored
  /\ currentUser # None
  /\ persisted' = None
  /\ authStateChanged(None)
  /\ nav' = StartNavigation(HomeUrl)
  /\ request' = [url |-> << HomeUrl >>, by |-> None]
  /\ UNCHANGED << restored, signInCall, signUpCall, authResult, profileVars, authGuardVersion,
                  location, decision, storeVars, queryVars, pageVars, formVars >>

\* What a guard returns: the value, and the navigation it starts when it
\* denies.
Allow == [allowed |-> TRUE, redirect |-> << >>, returnUrl |-> << >>]
Deny(target, returnUrl) ==
  [allowed |-> FALSE, redirect |-> << target >>, returnUrl |-> returnUrl]

\* Faulty variant: a visitor who is not authenticated is let through.
authGuardAllowsAll(authenticated, url) == Allow

\* authGuard's map(isAuthenticated => ...), the same in both sources.
authGuardResult(authenticated, url) ==
  IF authenticated THEN Allow ELSE Deny(SignInUrl, << url >>)

\* Faulty variant: the role guard that lets every profile through.
roleGuardAnyRole(profile, allowedRoles) ==
  IF profile = << >> THEN Deny(HomeUrl, << >>) ELSE Allow

\* Faulty variant: every wrong role is sent to the admin's orders page.
roleGuardToAdminOrders(profile, allowedRoles) ==
  IF profile = << >> THEN Deny(HomeUrl, << >>)
  ELSE IF profile[1].role \in allowedRoles THEN Allow
  ELSE Deny(<< "dashboard", "admin", "orders" >>, << >>)

\* roleGuard's map(profile => ...).
roleGuardResult(profile, allowedRoles) ==
  IF profile = << >> THEN Deny(HomeUrl, << >>)
  ELSE IF profile[1].role \in allowedRoles THEN Allow
  ELSE IF profile[1].role = "admin" THEN Deny(<< "dashboard", "admin", "orders" >>, << >>)
  ELSE IF profile[1].role = "designer" THEN Deny(<< "dashboard", "designer", "orders" >>, << >>)
  ELSE IF profile[1].role = "customer" THEN Deny(<< "dashboard", "customer", "orders" >>, << >>)
  ELSE Deny(HomeUrl, << >>)

\* A guard has emitted `result`: the record of it, and the navigation that
\* follows (the next guard, or the navigation the guard started).
Decided(guard, result, user, nextPc) ==
  /\ decision' = [guard |-> guard, allowed |-> result.allowed, loading |-> loading,
                  authenticated |-> isAuthenticated, user |-> user, url |-> nav.url,
                  roles |-> nav.roles, redirect |-> result.redirect,
                  returnUrl |-> result.returnUrl]
  /\ nav' = IF result.allowed
            THEN [nav EXCEPT !.pc = nextPc, !.user = user]
            ELSE StartNavigation(result.redirect[1])

\* Whether the authGuard source waits for loading$ to emit false before it
\* reads isAuthenticated$.
authGuardWaits(version) == version = "part_001"

\* authGuard emits.
AuthGuard ==
  /\ nav.pc = "authGuard"
  /\ authGuardWaits(authGuardVersion) => ~loading
  /\ Decided("authGuard", authGuardResult(isAuthenticated, nav.url), nav.user, "roleGuard")
  /\ UNCHANGED << authGuardVersion, location, request, storeVars, queryVars, pageVars, formVars, authVars >>

\* roleGuard, once loading$ has emitted false: reads currentUser$.
RoleGuardUser ==
  /\ nav.pc = "roleGuard"
  /\ ~loading
  /\ IF currentUser = None
     THEN Decided("roleGuard", Deny(SignInUrl, << nav.url >>), None, "roleGuard")
     ELSE /\ nav' = [nav EXCEPT !.pc = "userProfileListener", !.user = currentUser]
          /\ UNCHANGED decision
  /\ UNCHANGED << authGuardVersion, location, request, storeVars, queryVars, pageVars, formVars, authVars >>

\* roleGuard: the profile of the user it read arrives.
RoleGuardProfile ==
  /\ nav.pc = "userProfileListener"
  /\ Decided("roleGuard", roleGuardResult(userProfile(nav.user), nav.roles), nav.user, "activate")
  /\ UNCHANGED << authGuardVersion, location, request, storeVars, queryVars, pageVars, formVars, authVars >>

\* Every guard of the route allowed: the route is activated.
Activate ==
  /\ nav.pc = "activate"
  /\ location' = nav.url
  /\ nav' = IdleNav
  /\ request' = NoRequest
  /\ UNCHANGED << authGuardVersion, decision, storeVars, queryVars, pageVars, formVars, authVars >>

(***************************************************************************)
(* OrderService: the order queries.                                        *)
(***************************************************************************)
\* The documents of the orders collection as a query returns them: the
\* document id with the document's data.
OrderDocs == { [id |-> o, data |-> orders[o]] : o \in DOMAIN orders }

\* orderBy('createdAt', 'desc').
RECURSIVE OrderByCreatedAtDesc(_)
OrderByCreatedAtDesc(docs) ==
  IF docs = {} THEN << >>
  ELSE LET first == CHOOSE d \in docs : \A e \in docs : e.data.createdAt =< d.data.createdAt
       IN << first >> \o OrderByCreatedAtDesc(docs \ {first})

\* Faulty variant: the query without its where clause, as getAllOrders has it.
getOrdersOfAllDesigners(designerId) == OrderByCreatedAtDesc(OrderDocs)

\* where('customerId', '==', customerId), orderBy('createdAt', 'desc').
getOrdersByCustomer(customerId) ==
  OrderByCreatedAtDesc({ d \in OrderDocs : d.data.customerId = customerId })

\* where('assignedDesignerId', '==', designerId), orderBy('createdAt', 'desc').
getOrdersByDesigner(designerId) ==
  OrderByCreatedAtDesc({ d \in OrderDocs : d.data.assignedDesignerId = designerId })

\* The snapshot the listener emits: the same constraints as getOrdersByCustomer.
customerOrdersListener(customerId) ==
  OrderByCreatedAtDesc({ d \in OrderDocs : d.data.customerId = customerId })

NoDelivery == [query |-> None, arg |-> None, docs |-> << >>]

GetOrdersByCustomer(customerId) ==
  /\ delivered' = [query |-> "getOrdersByCustomer", arg |-> customerId,
                   docs |-> getOrdersByCustomer(customerId)]
  /\ UNCHANGED << storeVars, formVars, authVars, navVars, pageVars >>

GetOrdersByDesigner(designerId) ==
  /\ delivered' = [query |-> "getOrdersByDesigner", arg |-> designerId,
                   docs |-> getOrdersByDesigner(designerId)]
  /\ UNCHANGED << storeVars, formVars, authVars, navVars, pageVars >>

\* CustomerOrders.loadOrders, once loading$ has emitted false: the listener
\* for the user signed in, and a snapshot it emits.
CustomerOrdersSnapshot ==
  /\ ~loading
  /\ currentUser # None
  /\ delivered' = [query |-> "customerOrdersListener", arg |-> currentUser,
                   docs |-> customerOrdersListener(currentUser)]
  /\ UNCHANGED << storeVars, formVars, authVars, navVars, pageVars >>

(***************************************************************************)
(* AdminOrders.assignDesigner: orderService.assignDesigner, then           *)
(* userService.assignOrderToDesigner.                                      *)
(***************************************************************************)
\* The admin confirms the designer modal for an order of the list: up to the
\* await of getOrder inside orderService.assignDesigner.
AdminAssignDesigner(s, orderId, designerId) ==
  /\ now < MaxClock
  /\ calls[s].pc = "idle"
  /\ orderId \in DOMAIN orders
  /\ designerId \in DOMAIN userDocs
  /\ userDocs[designerId].role = "designer"
  /\ now' = now + 1
  /\ calls' = [calls EXCEPT ![s] =
       [pc |-> "write", op |-> "AdminOrders.assignDesigner", orderId |-> orderId,
        timestamp |-> now, order |-> getOrder(orderId),
        args |-> << [designerId |-> designerId, designerEmail |-> Email(designerId),
                     assignedBy |-> SessionUser(s),
                     assignedByEmail |-> Email(SessionUser(s))] >>,
        result |-> None]]
  /\ UNCHANGED << orders, completed, messages, reportTypeDocs, addonDocs, repriced, clientVars >>

\* orderService.assignDesigner wrote the order; the component goes on to
\* assignOrderToDesigner, which awaits getUserProfile.
AdminAssignDesignerWrite(s) ==
  /\ calls[s].pc = "write"
  /\ calls[s].op = "AdminOrders.assignDesigner"
  /\ orders' = [orders EXCEPT ![calls[s].orderId] = AssignDesignerData(@, calls[s])]
  /\ calls' = [calls EXCEPT ![s].pc = "getUserProfile", ![s].op = "assignOrderToDesigner"]
  /\ UNCHANGED << now, completed, messages, reportTypeDocs, addonDocs, repriced, clientVars >>

\* Faulty variant: the order is added even when the list already holds it.
assignedOrdersAppended(currentOrders, orderId) == Append(currentOrders, orderId)

\* assignOrderToDesigner: the list it writes.
assignedOrdersWith(currentOrders, orderId) ==
  IF \E i \in 1..Len(currentOrders) : currentOrders[i] = orderId
  THEN currentOrders
  ELSE Append(currentOrders, orderId)

\* getUserProfile resolved: nothing to write when the list already holds the
\* order, otherwise up to the await of updateDocument.
AssignOrderToDesignerRead(s) ==
  /\ calls[s].pc = "getUserProfile"
  /\ LET designer == userProfile(calls[s].args[1].designerId) IN
       IF designer = << >> THEN calls' = [calls EXCEPT ![s] = IdleCall("Designer not found")]
       ELSE IF designer[1].role # "designer"
         THEN calls' = [calls EXCEPT ![s] = IdleCall("User is not a designer")]
       ELSE IF assignedOrdersWith(designer[1].assignedOrders, calls[s].orderId)
                 = designer[1].assignedOrders
         THEN calls' = [calls EXCEPT ![s] = IdleCall("ok")]
       ELSE calls' = [calls EXCEPT ![s].pc = "write",
                                   ![s].order = << designer[1].assignedOrders >>]
  /\ UNCHANGED << now, orders, completed, messages, reportTypeDocs, addonDocs, repriced, clientVars >>

AssignOrderToDesignerWrite(s) ==
  /\ calls[s].pc = "write"
  /\ calls[s].op = "assignOrderToDesigner"
  /\ userDocs' = [userDocs EXCEPT ![calls[s].args[1].designerId].assignedOrders =
                    assignedOrdersWith(calls[s].order[1], calls[s].orderId)]
  /\ calls' = [calls EXCEPT ![s] = IdleCall("ok")]
  /\ UNCHANGED << now, orders, completed, messages, reportTypeDocs, addonDocs, repriced,
                  formVars, loading, currentUser, isAuthenticated, persisted, restored,
                  signInCall, signUpCall, authResult, accounts, navVars, queryVars, pageVars >>

(***************************************************************************)
(* AdminOrders: the order list with its search box and status filter.      *)
(* A text is the sequence of its characters.                               *)
(***************************************************************************)
UpperToLower == [A |-> "a", B |-> "b", M |-> "m", O |-> "o"]

\* String.prototype.toLowerCase
toLowerCase(text) ==
  [i \in 1..Len(text) |->
     IF text[i] \in DOMAIN UpperToLower THEN UpperToLower[text[i]] ELSE text[i]]

\* String.prototype.trim
RECURSIVE trim(_)
trim(text) ==
  IF text = << >> THEN text
  ELSE IF Head(text) = " " THEN trim(Tail(text))
  ELSE IF text[Len(text)] = " " THEN trim(SubSeq(text, 1, Len(text) - 1))
  ELSE text

\* String.prototype.includes
includes(text, query) ==
  \E i \in 0..(Len(text) - Len(query)) : SubSeq(text, i + 1, i + Len(query)) = query

\* The predicate of the search filter; order.projectName || ''.
MatchesQuery(order, query) ==
  \/ includes(toLowerCase(order.orderNumber), query)
  \/ includes(toLowerCase(order.customerName), query)
  \/ includes(toLowerCase(order.customerEmail), query)
  \/ includes(toLowerCase(IF order.projectName = << >> THEN << >> ELSE order.projectName[1]), query)
  \/ includes(toLowerCase(order.projectAddress), query)

\* Faulty variant: the status filter is skipped while a search is active.
filterOrdersSearchFirst(c) ==
  IF trim(c.searchQuery) # << >>
  THEN SelectSeq(c.orders, LAMBDA order : MatchesQuery(order, toLowerCase(c.searchQuery)))
  ELSE IF c.statusFilter # "all"
  THEN SelectSeq(c.orders, LAMBDA order : order.status = c.statusFilter)
  ELSE c.orders

\* filterOrders: the list it assigns to filteredOrders.
filterOrders(c) ==
  LET searched == IF trim(c.searchQuery) # << >>
                  THEN SelectSeq(c.orders,
                                 LAMBDA order : MatchesQuery(order, toLowerCase(c.searchQuery)))
                  ELSE c.orders
  IN IF c.statusFilter # "all"
     THEN SelectSeq(searched, LAMBDA order : order.status = c.statusFilter)
     ELSE searched

NoValidation == [preset |-> None, file |-> << >>, result |-> << >>]

FreshAdminOrders ==
  [orders |-> << >>, filteredOrders |-> << >>, loading |-> TRUE, error |-> "",
   searchQuery |-> << >>, statusFilter |-> "all"]

\* The component with filterOrders() run on it.
Filtered(c) == [c EXCEPT !.filteredOrders = filterOrders(c)]

\* loadOrders, next: the listener emits the order list.
OrdersEmitted(list) ==
  /\ adminOrders' = Filtered([adminOrders EXCEPT !.orders = list, !.loading = FALSE])
  /\ UNCHANGED << storeVars, formVars, authVars, navVars, queryVars, upload, validation >>

\* loadOrders, error: the listener fails.
OrdersListenerFails ==
  /\ adminOrders' = [adminOrders EXCEPT !.error = "Failed to load orders", !.loading = FALSE]
  /\ UNCHANGED << storeVars, formVars, authVars, navVars, queryVars, upload, validation >>

\* The search box changes: the bound field is set, then onSearchChange.
SearchChanged(query) ==
  /\ adminOrders' = Filtered([adminOrders EXCEPT !.searchQuery = query])
  /\ UNCHANGED << storeVars, formVars, authVars, navVars, queryVars, upload, validation >>

\* The status dropdown changes: the bound field is set, then
\* onStatusFilterChange.
StatusFilterChanged(status) ==
  /\ adminOrders' = Filtered([adminOrders EXCEPT !.statusFilter = status])
  /\ UNCHANGED << storeVars, formVars, authVars, navVars, queryVars, upload, validation >>

(***************************************************************************)
(* StorageService.uploadFileWithProgress: the observable, the upload task  *)
(* behind it, and the notifications its subscriber receives.               *)
(***************************************************************************)
\* Bound on the number of state_changed snapshots of one upload.
MaxSnapshots == 3

\* observer.next(event), observer.error(e), observer.complete().
NextEvent(state, progress, bytesTransferred, totalBytes, downloadURL) ==
  [kind |-> "next", state |-> state, progress |-> progress,
   bytesTransferred |-> bytesTransferred, totalBytes |-> totalBytes,
   downloadURL |-> downloadURL]
ErrorNotification ==
  [kind |-> "error", state |-> None, progress |-> 0, bytesTransferred |-> 0,
   totalBytes |-> 0, downloadURL |-> << >>]
CompleteNotification ==
  [kind |-> "complete", state |-> None, progress |-> 0, bytesTransferred |-> 0,
   totalBytes |-> 0, downloadURL |-> << >>]

\* The subscriber is closed once it has received an error or a completion.
Closed(events) ==
  events # << >> /\ events[Len(events)].kind \in {"error", "complete"}

\* A notification reaches the subscriber unless it is closed.
RECURSIVE Notify(_, _)
Notify(events, notifications) ==
  IF notifications = << >> THEN events
  ELSE Notify(IF Closed(events) THEN events ELSE Append(events, Head(notifications)),
              Tail(notifications))

\* Math.round((bytesTransferred / totalBytes) * 100)
RoundedPercent(bytesTransferred, totalBytes) ==
  (200 * bytesTransferred + totalBytes) \div (2 * totalBytes)

\* Faulty variant: the success event is built like a progress event, without
\* the download URL, and is repeated with it.
SuccessNotificationsInTwoEvents(totalBytes, downloadURL) ==
  << NextEvent("success", 100, totalBytes, totalBytes, << >>),
     NextEvent("success", 100, totalBytes, totalBytes, << downloadURL >>),
     CompleteNotification >>

\* The complete callback after getDownloadURL resolved.
SuccessNotifications(totalBytes, downloadURL) ==
  << NextEvent("success", 100, totalBytes, totalBytes, << downloadURL >>),
     CompleteNotification >>

\* The error callback of the upload task.
FailureNotifications ==
  << NextEvent("error", 0, 0, 0, << >>), ErrorNotification >>

\* The observable is subscribed to: without a file it errors at once,
\* otherwise the upload task starts.
Subscribe(file) ==
  /\ upload.pc = "idle"
  /\ upload' = IF file = << >>
               THEN [upload EXCEPT !.pc = "closed",
                                   !.events = Notify(@, << ErrorNotification >>)]
               ELSE [upload EXCEPT !.pc = "running", !.file = file]
  /\ UNCHANGED << storeVars, formVars, authVars, navVars, queryVars, adminOrders, validation >>

\* Building the path or creating the task throws: the outer catch.
UploadSetupFails(file) ==
  /\ upload.pc = "idle"
  /\ file # << >>
  /\ upload' = [upload EXCEPT !.pc = "closed", !.file = file,
                              !.events = Notify(@, << ErrorNotification >>)]
  /\ UNCHANGED << storeVars, formVars, authVars, navVars, queryVars, adminOrders, validation >>

\* state_changed: a snapshot of the running or paused task.
StateChanged(bytesTransferred, state) ==
  /\ upload.pc = "running"
  /\ Len(upload.events) < MaxSnapshots
  /\ bytesTransferred \in upload.transferred..upload.file[1]
  /\ upload' = [upload EXCEPT
       !.transferred = bytesTransferred,
       !.events = Notify(@, << NextEvent(state,
                                         RoundedPercent(bytesTransferred, upload.file[1]),
                                         bytesTransferred, upload.file[1], << >>) >>)]
  /\ UNCHANGED << storeVars, formVars, authVars, navVars, queryVars, adminOrders, validation >>

\* The task fails or is cancelled: the error callback.
UploadFails ==
  /\ upload.pc = "running"
  /\ upload' = [upload EXCEPT !.pc = "closed", !.events = Notify(@, FailureNotifications)]
  /\ UNCHANGED << storeVars, formVars, authVars, navVars, queryVars, adminOrders, validation >>

\* The task succeeds: the complete callback, up to await getDownloadURL.
UploadSucceeds ==
  /\ upload.pc = "running"
  /\ upload' = [upload EXCEPT !.pc = "getDownloadURL", !.transferred = upload.file[1]]
  /\ UNCHANGED << storeVars, formVars, authVars, navVars, queryVars, adminOrders, validation >>

DownloadURLResolved ==
  /\ upload.pc = "getDownloadURL"
  /\ upload' = [upload EXCEPT
       !.pc = "closed",
       !.events = Notify(@, SuccessNotifications(upload.file[1], "url1"))]
  /\ UNCHANGED << storeVars, formVars, authVars, navVars, queryVars, adminOrders, validation >>

\* getDownloadURL rejects: the inner catch.
DownloadURLRejected ==
  /\ upload.pc = "getDownloadURL"
  /\ upload' = [upload EXCEPT !.pc = "closed", !.events = Notify(@, << ErrorNotification >>)]
  /\ UNCHANGED << storeVars, formVars, authVars, navVars, queryVars, adminOrders, validation >>

\* The caller subscribes to a new observable for the next file.
UploadAgain ==
  /\ upload.pc = "closed"
  /\ upload' = [pc |-> "idle", file |-> << >>, transferred |-> 0, events |-> << >>]
  /\ UNCHANGED << storeVars, formVars, authVars, navVars, queryVars, adminOrders, validation >>

(***************************************************************************)
(* Initial states.                                                         *)
(***************************************************************************)
StoreInit ==
  /\ now = 0
  /\ orders = EmptyDocs
  /\ calls = [s \in Sessions |-> IdleCall(None)]
  /\ completed = {}
  /\ messages = << >>
  /\ reportTypeDocs = EmptyDocs
  /\ addonDocs = EmptyDocs
  /\ repriced = {}
  /\ delivered = NoDelivery

FormInit ==
  /\ page = "none"
  /\ sessionStorage = [selectedStructureType |-> None, orderData |-> << >>]
  /\ newOrder = FreshNewOrder
  /\ orderReview = FreshOrderReview

\* AuthService as constructed: loading, nobody signed in yet.
AuthInit ==
  /\ loading = TRUE
  /\ currentUser = None
  /\ isAuthenticated = FALSE
  /\ restored = FALSE
  /\ signInCall = IdleSignIn
  /\ signUpCall = IdleSignUp
  /\ authResult = NoResult
  /\ userDocs = InitialUserDocs
  /\ accounts = Users \cup Designers

\* A customer whose session has been restored.
CustomerSignedIn ==
  /\ loading = FALSE
  /\ currentUser \in Customers
  /\ isAuthenticated = TRUE
  /\ persisted = currentUser
  /\ restored = TRUE
  /\ signInCall = IdleSignIn
  /\ signUpCall = IdleSignUp
  /\ authResult = NoResult
  /\ userDocs = InitialUserDocs
  /\ accounts = Users \cup Designers

IdleUpload == [pc |-> "idle", file |-> << >>, transferred |-> 0, events |-> << >>]

\* The pages and services no one has used yet.
PageInit ==
  /\ adminOrders = FreshAdminOrders
  /\ upload = IdleUpload
  /\ validation = NoValidation

\* The router before its first navigation.
NavInit ==
  /\ nav = IdleNav
  /\ location = << >>
  /\ decision = NoDecision
  /\ request = NoRequest

Init ==
  /\ StoreInit /\ FormInit /\ AuthInit /\ NavInit /\ PageInit
  /\ persisted = None
  /\ authGuardVersion = "auth.guard.ts"

\* What the new-order form and the review page hand to createOrder.
SampleOrderData ==
  { [customerId |-> c, customerEmail |-> Email(c),
     reportType |-> CategoryReportTypes[1],
     addons |-> a, structureCategory |-> "basic",
     basePrice |-> 14,
     addonsTotal |-> IF a = << >> THEN 0 ELSE 8,
     totalPrice |-> IF a = << >> THEN 14 ELSE 22,
     priority |-> "medium"] :
    c \in Customers, a \in { << >>, << [id |-> "basic_fence", name |-> "Fence", price |-> 8] >> } }

StatusNotes == {None, "checked"}

\* Inputs of the file and pricing operations.
UrlLists == { << "url1" >> }
PricedDocIds == {"report_type_1", "addon_2"}
NewPrices == {9}

TimelineNext ==
  \/ \E o \in OrderIds, d \in SampleOrderData : CreateOrder(o, d, d.customerId)
  \/ \E s \in Sessions, o \in OrderIds, st \in OrderStatus, n \in StatusNotes :
       UpdateOrderStatusBegin(s, o, st, SessionUser(s), Email(SessionUser(s)), "admin", n)
  \/ \E s \in Sessions : UpdateOrderStatusWrite(s)
  \/ \E s \in Sessions, o \in OrderIds, d \in Designers :
       AssignDesignerBegin(s, o, d, Email(d), SessionUser(s), Email(SessionUser(s)))
  \/ \E s \in Sessions : AssignDesignerWrite(s)
  \/ \E s \in Sessions : UpdateDocumentFails(s)

Next ==
  \/ TimelineNext
  \/ \E s \in Sessions, o \in OrderIds, u \in UrlLists : AddSiteImagesBegin(s, o, u)
  \/ \E s \in Sessions : AddSiteImagesWrite(s)
  \/ \E s \in Sessions, o \in OrderIds, u \in UrlLists : AddDesignFilesBegin(s, o, u)
  \/ \E s \in Sessions : AddDesignFilesWrite(s)
  \/ \E o \in OrderIds, u \in Customers \cup Admins :
       AddMessage(o, u, IF u \in Admins THEN "admin" ELSE "customer", "hello")
  \/ InitializeDefaultPricing
  \/ \E id \in PricedDocIds, p \in NewPrices : UpdateReportTypePrice(id, p)
  \/ \E id \in PricedDocIds, p \in NewPrices : UpdateAddonPrice(id, p)
  \/ AddReportType([name |-> "Roof ESX only", description |-> "ESX format", price |-> 16, isActive |-> TRUE])
  \/ AddAddon([name |-> "Fence", price |-> 9, isActive |-> TRUE])

Spec == Init /\ [][Next]_vars

\* Inputs of the new-order form.
CategoryChoices == {"basic", "moderate"}
ReportTypeChoices == {"roof_esx_only", "roof_esx_pdf"}
AddonChoices == {1, 2}
FormOrderIds == {"o1"}

FormNext ==
  \/ \E c \in CategoryChoices : SelectStructure(c)
  \/ OpenNewOrder
  \/ EnterAddress("12 Main St")
  \/ \E id \in ReportTypeChoices : SelectReportType(id)
  \/ \E i \in AddonChoices : ToggleAddon(i)
  \/ OnSubmit
  \/ OpenOrderReview
  \/ \E o \in FormOrderIds : ConfirmOrder(o)
  \/ ConfirmOrderFails

InitForm ==
  /\ StoreInit /\ FormInit /\ CustomerSignedIn /\ NavInit /\ PageInit
  /\ authGuardVersion = "auth.guard.ts"

SpecForm == InitForm /\ [][FormNext]_vars

\* The admin's pricing operations next to one customer filling the form.
PricingNext ==
  \/ InitializeDefaultPricing
  \/ \E id \in PricedDocIds, p \in NewPrices :
       \/ UpdateReportTypePrice(id, p)
       \/ UpdateAddonPrice(id, p)
  \/ SelectStructure("basic")
  \/ EnterAddress("12 Main St")
  \/ ToggleAddon(2)
  \/ OnSubmit
  \/ \E o \in OrderIds : ConfirmOrder(o)

SpecPricing == InitForm /\ [][PricingNext]_vars

\* URLs a user asks for: the home page, the dashboard, customer routes with
\* and without a parameter, the admin route, and a dashboard URL no route
\* matches.
RequestedUrls ==
  { << >>, << "dashboard" >>,
    << "dashboard", "customer", "orders" >>,
    << "dashboard", "customer", "orders", "o1" >>,
    << "dashboard", "admin", "orders" >>,
    << "dashboard", "designer", "orders" >> }

\* URLs the browser is opened or refreshed at.
LoadedUrls == { << >>, << "dashboard", "customer", "orders", "o1" >> }

\* The account that signs in through the form; the others come with a
\* restored session.
SignInUsers == {"c1"}

AuthGuardVersions == {"auth.guard.ts", "part_001"}

NavNext ==
  \/ \E url \in RequestedUrls : Navigate(url)
  \/ \E url \in LoadedUrls : LoadApplication(url)
  \/ RestoreSession
  \/ \E u \in SignInUsers : SignInBegin(u)
  \/ SignInAccepted
  \/ SignInRejected
  \/ SignInEnd
  \/ SignInLastLoginFails
  \/ SignOutUser
  \/ AuthGuard
  \/ RoleGuardUser
  \/ RoleGuardProfile
  \/ Activate

InitNav ==
  /\ StoreInit /\ FormInit /\ AuthInit /\ NavInit /\ PageInit
  /\ persisted \in Users \cup {None}
  /\ authGuardVersion \in AuthGuardVersions

SpecNav == InitNav /\ [][NavNext]_vars

\* Accounts that do not exist yet and sign up.
NewAccounts == {"u1", "u2"}

\* Sign-up, sign-in and sign-out, with the application reloaded in between.
AuthNext ==
  \/ LoadApplication(HomeUrl)
  \/ RestoreSession
  \/ \E u \in Users \cup NewAccounts : SignInBegin(u)
  \/ SignInAccepted
  \/ SignInRejected
  \/ SignInEnd
  \/ SignInLastLoginFails
  \/ \E u \in NewAccounts \cup {"c1"} : SignUpBegin(u)
  \/ SignUpAccountCreated
  \/ SignUpRejected
  \/ SignUpProfileCreated
  \/ SignUpProfileFails
  \/ SignOutUser
  \/ Activate

InitAuth ==
  /\ StoreInit /\ FormInit /\ AuthInit /\ NavInit /\ PageInit
  /\ persisted = None
  /\ authGuardVersion = "auth.guard.ts"

SpecAuth == InitAuth /\ [][AuthNext]_vars

\* The customers whose orders the queries tell apart.
QueryCustomers == {"c1", "c2"}

AssignOrderData ==
  { [d EXCEPT !.customerId = c, !.customerEmail = Email(c)] :
      d \in { e \in SampleOrderData : e.addons = << >> }, c \in QueryCustomers }

\* Orders are created, assigned and reassigned by two admins at once, and
\* queried.
AssignNext ==
  \/ \E o \in OrderIds, d \in AssignOrderData : CreateOrder(o, d, d.customerId)
  \/ \E s \in Sessions, o \in OrderIds, d \in Designers : AdminAssignDesigner(s, o, d)
  \/ \E s \in Sessions : AdminAssignDesignerWrite(s)
  \/ \E s \in Sessions : AssignOrderToDesignerRead(s)
  \/ \E s \in Sessions : AssignOrderToDesignerWrite(s)
  \/ \E s \in Sessions : UpdateDocumentFails(s)
  \/ \E c \in QueryCustomers : GetOrdersByCustomer(c)
  \/ \E d \in Designers : GetOrdersByDesigner(d)
  \/ CustomerOrdersSnapshot

InitAssign ==
  /\ StoreInit /\ FormInit /\ CustomerSignedIn /\ NavInit /\ PageInit
  /\ authGuardVersion = "part_001"

SpecAssign == InitAssign /\ [][AssignNext]_vars

\* Every kind of user: the accounts above and one whose profile has a role
\* that is none of customer, admin, designer.
SettleUsers == Users \cup {"x1"}

SettleUserDocs == Put(InitialUserDocs, "x1", NewUserProfile([role |-> "manager"], 0))

\* The user asks for a URL once the previous navigation has settled.
RequestUrl(url) ==
  /\ nav.pc = "idle"
  /\ Navigate(url)

\* The user reloads the application once the previous navigation has settled.
ReloadAt(url) ==
  /\ nav.pc = "idle"
  /\ LoadApplication(url)

\* One request at a time, while signing in and out goes on.
SettleNext ==
  \/ \E url \in RequestedUrls : RequestUrl(url)
  \/ \E url \in LoadedUrls : ReloadAt(url)
  \/ RestoreSession
  \/ \E u \in SignInUsers : SignInBegin(u)
  \/ SignInAccepted
  \/ SignInRejected
  \/ SignInEnd
  \/ SignInLastLoginFails
  \/ SignOutUser
  \/ AuthGuard
  \/ RoleGuardUser
  \/ RoleGuardProfile
  \/ Activate

InitSettle ==
  /\ StoreInit /\ FormInit /\ NavInit /\ PageInit
  /\ loading = TRUE
  /\ currentUser = None
  /\ isAuthenticated = FALSE
  /\ restored = FALSE
  /\ signInCall = IdleSignIn
  /\ signUpCall = IdleSignUp
  /\ authResult = NoResult
  /\ userDocs = SettleUserDocs
  /\ accounts = SettleUsers \cup Designers
  /\ persisted \in SettleUsers \cup {None}
  /\ authGuardVersion \in AuthGuardVersions

\* Firebase delivers the restored session and answers every sign-in; a
\* guard that waits for loading$ runs in the callback that sets it to false;
\* the router runs the guards of a navigation and activates its route.
SettleFairness ==
  /\ WF_vars(RestoreSession)
  /\ WF_vars(SignInAccepted \/ SignInRejected)
  /\ WF_vars(SignInEnd \/ SignInLastLoginFails)
  /\ SF_vars(AuthGuard)
  /\ SF_vars(RoleGuardUser)
  /\ WF_vars(RoleGuardProfile)
  /\ WF_vars(Activate)

SpecSettle == InitSettle /\ [][SettleNext]_vars /\ SettleFairness

\* The rows the listener delivers: texts in mixed case, one row without a
\* project name.
AdminOrderRows ==
  [o1 |-> [id |-> "o1", orderNumber |-> << "O", "-", "1" >>, customerName |-> << "A", "b" >>,
           customerEmail |-> << "a", "@", "m" >>, projectName |-> << << "B", "a" >> >>,
           projectAddress |-> << "1", " ", "M" >>, status |-> "pending"],
   o2 |-> [id |-> "o2", orderNumber |-> << "O", "-", "2" >>, customerName |-> << "B", "o" >>,
           customerEmail |-> << "b", "@", "m" >>, projectName |-> << >>,
           projectAddress |-> << "2", " ", "A" >>, status |-> "completed"],
   o3 |-> [id |-> "o3", orderNumber |-> << "O", "-", "3" >>, customerName |-> << "A", "b" >>,
           customerEmail |-> << "a", "@", "m" >>, projectName |-> << << "M", "o" >> >>,
           projectAddress |-> << "3", " ", "B" >>, status |-> "pending"]]

AdminOrderLists ==
  { << >>, << AdminOrderRows.o1 >>, << AdminOrderRows.o2, AdminOrderRows.o1 >>,
    << AdminOrderRows.o3, AdminOrderRows.o2, AdminOrderRows.o1 >> }

SearchQueries ==
  { << >>, << " " >>, << "a" >>, << "A", "B" >>, << "o", "-" >>, << " ", "m" >>,
    << "b", " " >>, << "z" >>, << "2" >> }

StatusFilters == {"all", "pending", "completed", "cancelled"}

AdminPageNext ==
  \/ \E list \in AdminOrderLists : OrdersEmitted(list)
  \/ OrdersListenerFails
  \/ \E query \in SearchQueries : SearchChanged(query)
  \/ \E status \in StatusFilters : StatusFilterChanged(status)

InitAdminPage ==
  /\ StoreInit /\ FormInit /\ AuthInit /\ NavInit /\ PageInit
  /\ persisted = None
  /\ authGuardVersion = "auth.guard.ts"

SpecAdminPage == InitAdminPage /\ [][AdminPageNext]_vars

\* The users who read messages, and the ids a message can have.
Readers == {"c1", "a1", "a2"}
MessageIds == { "msg_" \o ToString(t) : t \in 0..MaxClock }

\* The customer writes messages on an order; the customer and two admins
\* mark them as read from two sessions at once.
MessagesNext ==
  \/ AddMessage("o1", "c1", "customer", "hello")
  \/ \E s \in Sessions, m \in MessageIds, u \in Readers : MarkMessageAsReadBegin(s, "o1", m, u)
  \/ \E s \in Sessions : MarkMessageAsReadWrite(s)
  \/ \E s \in Sessions : UpdateDocumentFails(s)

InitMessages ==
  /\ StoreInit /\ FormInit /\ AuthInit /\ NavInit /\ PageInit
  /\ persisted = None
  /\ authGuardVersion = "auth.guard.ts"

SpecMessages == InitMessages /\ [][MessagesNext]_vars

\* The files handed to uploadFileWithProgress: none, or a file of a size
\* in bytes.
UploadedFiles == { << >>, << 1 >>, << 2 >>, << 3 >> }

UploadNext ==
  \/ \E file \in UploadedFiles : Subscribe(file)
  \/ \E file \in UploadedFiles : UploadSetupFails(file)
  \/ \E b \in 0..3, state \in {"running", "paused"} : StateChanged(b, state)
  \/ UploadFails
  \/ UploadSucceeds
  \/ DownloadURLResolved
  \/ DownloadURLRejected
  \/ UploadAgain

InitUpload ==
  /\ StoreInit /\ FormInit /\ AuthInit /\ NavInit /\ PageInit
  /\ persisted = None
  /\ authGuardVersion = "auth.guard.ts"

SpecUpload == InitUpload /\ [][UploadNext]_vars

(***************************************************************************)
(* Properties of the order service.                                        *)
(***************************************************************************)
IsPrefix(a, b) == Len(a) <= Len(b) /\ SubSeq(b, 1, Len(a)) = a

InTimeline(entry, timeline) == \E i \in 1..Len(timeline) : timeline[i] = entry

NoCallInFlight == \A s \in Sessions : calls[s].pc = "idle"

\* C1: the status timeline is append-only: every step leaves the previous
\* stored timeline of each order a prefix of the new one.
C1_TimelineAppendOnly ==
  [][\A o \in DOMAIN orders :
       IsPrefix(orders[o].statusTimeline, orders'[o].statusTimeline)]_vars

\* C2: once no call is in flight, every updateOrderStatus call that resolved
\* has its entry in the stored timeline of its order.
C2_EveryStatusChangeRecorded ==
  NoCallInFlight =>
    \A c \in completed : InTimeline(c.entry, orders[c.orderId].statusTimeline)

\* The documented order status flow.
DocumentedFlow ==
  { << "pending", "in_progress" >>, << "in_progress", "review" >>,
    << "review", "completed" >> }
  \cup { << st, "cancelled" >> : st \in {"pending", "in_progress", "review"} }

\* C3: the status of an order only moves along the documented flow.
C3_StatusFollowsFlow ==
  [][\A o \in DOMAIN orders :
       \/ orders'[o].status = orders[o].status
       \/ << orders[o].status, orders'[o].status >> \in DocumentedFlow]_vars

\* The price snapshot of an order document.
PriceSnapshot(doc) ==
  << doc.reportType, doc.addons, doc.basePrice, doc.addonsTotal, doc.totalPrice >>

\* C4: no operation changes the price snapshot of an order that exists.
C4_PriceSnapshotFrozen ==
  [][\A o \in DOMAIN orders :
       PriceSnapshot(orders'[o]) = PriceSnapshot(orders[o])]_vars

\* C4 witness: the price of the Fence addon document was changed after an
\* order carrying the Fence addon had been created.
C4_Witness ==
  \E o \in DOMAIN orders :
    /\ orders[o].addons # << >>
    /\ orders[o].createdAt = 0
    /\ "addon_2" \in DOMAIN addonDocs
    /\ addonDocs["addon_2"].price = 9

(***************************************************************************)
(* Properties of the new-order -> order-review flow.                       *)
(***************************************************************************)
Created(o) == o \notin DOMAIN orders /\ o \in DOMAIN orders'

\* C5: an order created after an admin changed a price carries the changed
\* price: for every addon of the new order, an addon document of the same
\* name whose price was updated has the price the order stores, and the same
\* for the report type and with it basePrice.
C5_NewOrderCarriesChangedPrice ==
  [][\A o \in OrderIds : Created(o) =>
       /\ \A i \in 1..Len(orders'[o].addons) : \A d \in DOMAIN addonDocs :
            (d \in repriced /\ addonDocs[d].name = orders'[o].addons[i].name)
              => orders'[o].addons[i].price = addonDocs[d].price
       /\ \A d \in DOMAIN reportTypeDocs :
            (d \in repriced /\ reportTypeDocs[d].name = orders'[o].reportType.name)
              => /\ orders'[o].reportType.price = reportTypeDocs[d].price
                 /\ orders'[o].basePrice = reportTypeDocs[d].price]_vars

PriceAt(items, i) == items[i].price

RECURSIVE SumUpTo(_, _)
SumUpTo(items, n) == IF n = 0 THEN 0 ELSE SumUpTo(items, n - 1) + PriceAt(items, n)

\* C6: every order written through the new-order -> order-review flow has
\* basePrice = reportType.price, addonsTotal = the sum of its addons' prices
\* and totalPrice = basePrice + addonsTotal.
C6_OrderPricesAddUp ==
  \A o \in DOMAIN orders :
    /\ orders[o].basePrice = orders[o].reportType.price
    /\ orders[o].addonsTotal = SumUpTo(orders[o].addons, Len(orders[o].addons))
    /\ orders[o].totalPrice = orders[o].basePrice + orders[o].addonsTotal

\* C6 witness: an order of the moderate category with the second report type
\* and two addons.
C6_Witness ==
  \E o \in DOMAIN orders :
    /\ orders[o].structureCategory = "moderate"
    /\ orders[o].reportType.id = "roof_esx_pdf"
    /\ Len(orders[o].addons) = 2
    /\ orders[o].totalPrice = 19 + 30 + 12

IsRushAddon(addon) == addon.name = "2-Hour Rush"

\* C7: an order whose addons include the 2-Hour Rush addon is stored with
\* priority 'high'.
C7_RushOrderHighPriority ==
  \A o \in DOMAIN orders :
    (\E i \in 1..Len(orders[o].addons) : IsRushAddon(orders[o].addons[i]))
      => orders[o].priority = "high"

(***************************************************************************)
(* Properties of the route guards.                                         *)
(***************************************************************************)
\* The step in which the router activates a route under /dashboard/<area>.
Activates(area) ==
  /\ nav.pc = "activate"
  /\ nav' = IdleNav
  /\ location' = nav.url
  /\ Len(nav.url) >= 2
  /\ nav.url[1] = "dashboard"
  /\ nav.url[2] = area

HasRole(user, role) == user \in DOMAIN UserProfiles /\ UserProfiles[user].role = role

\* C8: roleGuard(allowedRoles) allows only when the user it read is signed
\* in, has a profile, and the profile's role is in allowedRoles; a
\* /dashboard/admin/* route activates only for a user of role admin and a
\* /dashboard/customer/* route only for a user of role customer.
C8_RoleGuardAllowsOnlyAllowedRoles ==
  /\ [](decision.guard = "roleGuard" /\ decision.allowed
          => /\ decision.user # None
             /\ decision.user \in DOMAIN UserProfiles
             /\ UserProfiles[decision.user].role \in decision.roles)
  /\ [][/\ Activates("admin") => HasRole(nav.user, "admin")
        /\ Activates("customer") => HasRole(nav.user, "customer")]_vars

\* C8 witness: the admin orders route is activated for the signed-in admin
\* after roleGuard allowed it.
C8_Witness ==
  /\ location = << "dashboard", "admin", "orders" >>
  /\ currentUser = "a1"
  /\ decision.guard = "roleGuard"
  /\ decision.allowed
  /\ decision.roles = {"admin"}

C10_GuardsWaitForLoading ==
  decision.guard # None => ~decision.loading

\* The step in which the navigation in flight ends at an activated route.
Settles ==
  /\ nav.pc = "activate"
  /\ nav' = IdleNav
  /\ location' = nav.url

OrdersPage(role) == << "dashboard", role, "orders" >>

\* The navigation in flight was asked for by a signed-in user of `role`, who
\* is still the signed-in user and the one the guards read.
RequestedByRole(role) ==
  /\ request.by # None
  /\ HasRole(request.by, role)
  /\ currentUser = request.by
  /\ nav.user \in {None, request.by}

\* C11: a navigation a customer asked for to the admin or designer orders
\* page settles on the customer orders page, and one an admin asked for to
\* the customer or designer orders page settles on the admin orders page.
C11_WrongRoleEndsOnOwnOrders ==
  [][/\ (Settles /\ RequestedByRole("customer")
           /\ request.url[1] \in {OrdersPage("admin"), OrdersPage("designer")})
          => nav.url = OrdersPage("customer")
     /\ (Settles /\ RequestedByRole("admin")
           /\ request.url[1] \in {OrdersPage("customer"), OrdersPage("designer")})
          => nav.url = OrdersPage("admin")]_vars

\* C12: the document createOrder stores has status 'pending', exactly one
\* timeline entry (status 'pending', changedBy the creator, changedByEmail the
\* customer's email, changedByRole 'customer', notes 'Order created'), empty
\* siteImages and designFiles, no assigned designer and no completedAt.  The
\* creator is the signed-in user who confirms the order.
C12_NewOrderInitialDocument ==
  [][\A o \in OrderIds : Created(o) =>
       /\ orders'[o].status = "pending"
       /\ Len(orders'[o].statusTimeline) = 1
       /\ orders'[o].statusTimeline[1].status = "pending"
       /\ orders'[o].statusTimeline[1].changedBy = currentUser
       /\ orders'[o].statusTimeline[1].changedByEmail = orders'[o].customerEmail
       /\ orders'[o].statusTimeline[1].changedByRole = "customer"
       /\ orders'[o].statusTimeline[1].notes = "Order created"
       /\ orders'[o].siteImages = << >>
       /\ orders'[o].designFiles = << >>
       /\ orders'[o].assignedDesignerId = None
       /\ orders'[o].assignedDesignerEmail = None
       /\ orders'[o].completedAt = 0]_vars

\* C12 witness: the review page has confirmed an order, and the order is
\* stored with its one 'Order created' entry.
C12_Witness ==
  /\ orderReview.orderConfirmed
  /\ \E o \in DOMAIN orders :
       /\ orders[o].customerId = currentUser
       /\ Len(orders[o].statusTimeline) = 1
       /\ orders[o].statusTimeline[1].notes = "Order created"

(***************************************************************************)
(* Properties of sign-up and sign-in.                                      *)
(***************************************************************************)
\* The step in which signUp emits its result.
SignUpEmits ==
  /\ signUpCall.pc # "idle"
  /\ signUpCall'.pc = "idle"
  /\ authResult'.op = "signUp"

\* C13: when signUp emits success: true, the users document of the new
\* account exists with role 'customer' and isActive true; and every profile a
\* step of signUp creates or changes has role 'customer'.
C13_SignUpSuccessHasCustomerProfile ==
  [][/\ (SignUpEmits /\ authResult'.success)
          => /\ authResult'.uid = signUpCall.user
             /\ authResult'.uid \in DOMAIN userDocs'
             /\ userDocs'[authResult'.uid].role = "customer"
             /\ userDocs'[authResult'.uid].isActive
     /\ (signUpCall' # signUpCall /\ authResult'.op = "signUp")
          => \A u \in DOMAIN userDocs' :
               (u \notin DOMAIN userDocs \/ userDocs'[u] # userDocs[u])
                 => userDocs'[u].role = "customer"]_vars

\* C13 witness: signUp has reported success for the new account u1, whose
\* profile is stored and who is signed in.
C13_Witness ==
  /\ authResult = [op |-> "signUp", success |-> TRUE, uid |-> "u1"]
  /\ "u1" \in DOMAIN userDocs
  /\ userDocs["u1"].role = "customer"
  /\ currentUser = "u1"

\* The step in which signIn emits its result.
SignInEmits ==
  /\ signInCall.pc # "idle"
  /\ signInCall'.pc = "idle"
  /\ authResult'.op = "signIn"

\* C19: on every outcome of signIn the loading flag is false when the result
\* is emitted, and once the credential was accepted the result is success:
\* true, whether or not the last-login update went through.
C19_SignInSucceedsWithoutLastLogin ==
  [][SignInEmits =>
       /\ ~loading'
       /\ signInCall.pc = "updateLastLogin" => authResult'.success
       /\ signInCall.pc = "signInWithEmailAndPassword" => ~authResult'.success]_vars

\* C19 witness: signIn has reported success for the account without a
\* profile document, for which updateLastLogin cannot succeed.
C19_Witness ==
  /\ authResult.op = "signIn"
  /\ authResult.success
  /\ currentUser = "n1"
  /\ "n1" \notin DOMAIN userDocs
  /\ signInCall.pc = "idle"
  /\ ~loading

(***************************************************************************)
(* Properties of the order queries and of designer assignment.             *)
(***************************************************************************)
DeliveredIds == { delivered.docs[i].id : i \in 1..Len(delivered.docs) }

\* C14: a query for a customer delivers only orders whose customerId is that
\* customer, and a query for a designer delivers only orders that are
\* assigned to that designer at the moment of the delivery.
C14_QueriesDeliverOwnOrdersOnly ==
  [][delivered' # delivered =>
       \A i \in 1..Len(delivered'.docs) :
         LET id == delivered'.docs[i].id IN
           /\ id \in DOMAIN orders'
           /\ delivered'.docs[i].data = orders'[id]
           /\ delivered'.query \in {"getOrdersByCustomer", "customerOrdersListener"}
                => orders'[id].customerId = delivered'.arg
           /\ delivered'.query = "getOrdersByDesigner"
                => orders'[id].assignedDesignerId = delivered'.arg]_vars

\* A designer's query delivered an order while the store holds an order of
\* another customer that is not assigned to that designer.
C14_Witness ==
  /\ delivered.query = "getOrdersByDesigner"
  /\ delivered.docs # << >>
  /\ \E o \in DOMAIN orders :
       /\ o \notin DeliveredIds
       /\ orders[o].assignedDesignerId # delivered.arg
       /\ orders[o].customerId # delivered.docs[1].data.customerId

\* C15: two orders created at different times have different order
\* numbers.
C15_OrderNumbersUnique ==
  \A o1, o2 \in DOMAIN orders :
    orders[o1].createdAt # orders[o2].createdAt
      => orders[o1].orderNumber # orders[o2].orderNumber

\* C16: the status of every stored order is the status of the last entry
\* of its timeline.
C16_StatusIsLastTimelineStatus ==
  \A o \in DOMAIN orders :
    orders[o].status = orders[o].statusTimeline[Len(orders[o].statusTimeline)].status

\* The order ids listed in a designer's assignedOrders.
AssignedOrdersOf(d) ==
  { userDocs[d].assignedOrders[i] : i \in 1..Len(userDocs[d].assignedOrders) }

\* C17: whenever no assignment is running, a designer's assignedOrders
\* lists an order exactly when the order's assignedDesignerId is that
\* designer.
C17_AssignmentConsistent ==
  NoCallInFlight =>
    \A d \in Designers, o \in DOMAIN orders :
      o \in AssignedOrdersOf(d) <=> orders[o].assignedDesignerId = d

\* A step of session s that is one of the four calls for order o.
CallsWithOrder(s, o) ==
  \/ \E st \in OrderStatus, n \in StatusNotes :
       UpdateOrderStatusBegin(s, o, st, SessionUser(s), Email(SessionUser(s)), "admin", n)
  \/ \E d \in Designers :
       AssignDesignerBegin(s, o, d, Email(d), SessionUser(s), Email(SessionUser(s)))
  \/ \E u \in UrlLists : AddSiteImagesBegin(s, o, u)
  \/ \E u \in UrlLists : AddDesignFilesBegin(s, o, u)

\* C18: updateOrderStatus, assignDesigner, addSiteImages and addDesignFiles
\* called for an order that does not exist end with the error 'Order not
\* found', with no write left to do, and leave every document as it was.
C18_MissingOrderFailsWithoutWrite ==
  [][\A s \in Sessions, o \in OrderIds :
       (o \notin DOMAIN orders /\ CallsWithOrder(s, o))
         => /\ calls'[s] = IdleCall("Order not found")
            /\ orders' = orders
            /\ messages' = messages
            /\ userDocs' = userDocs]_vars

\* A call failed with 'Order not found' while another order is stored.
C18_Witness ==
  /\ \E s \in Sessions : calls[s].result = "Order not found"
  /\ DOMAIN orders # {}
  /\ DOMAIN orders # OrderIds

(***************************************************************************)
(* Termination of navigation.                                              *)
(***************************************************************************)
\* C20: every navigation in flight leads to an activated route: the chain
\* of guard and route redirects ends.
C20_NavigationSettles == (nav.pc # "idle") ~> (nav.pc = "idle")

\* The user with the unknown role asked for the dashboard, roleGuard sent
\* the navigation to the home page, and the home page was activated.
C20_Witness ==
  /\ nav.pc = "idle"
  /\ location = HomeUrl
  /\ decision.guard = "roleGuard"
  /\ ~decision.allowed
  /\ decision.user = "x1"
  /\ decision.redirect = << HomeUrl >>

(***************************************************************************)
(* Properties of the admin orders page.                                    *)
(***************************************************************************)
\* The texts of an order the search looks at, lower-cased.
SearchedTexts(order) ==
  { toLowerCase(order.orderNumber), toLowerCase(order.customerName),
    toLowerCase(order.customerEmail), toLowerCase(order.projectAddress) }
  \cup { toLowerCase(order.projectName[i]) : i \in 1..Len(order.projectName) }

IsBlank(query) == \A i \in 1..Len(query) : query[i] = " "

\* An order the search query and the status filter both let through.
Shown(order) ==
  /\ \/ IsBlank(adminOrders.searchQuery)
     \/ \E text \in SearchedTexts(order) : includes(text, toLowerCase(adminOrders.searchQuery))
  /\ adminOrders.statusFilter \in {"all", order.status}

\* C21: filteredOrders is the sub-list of orders, in the same order, of
\* the orders one of whose texts contains the lower-cased query (every
\* order, for a blank query) and whose status is the selected one (every
\* order, for 'all').
C21_FilteredOrdersIsTheMatchingSubList ==
  adminOrders.filteredOrders = SelectSeq(adminOrders.orders, Shown)

\* A search in mixed case and a status filter are both active, and two of
\* the three orders of the list are shown.
C21_Witness ==
  /\ adminOrders.searchQuery = << "A", "B" >>
  /\ adminOrders.statusFilter = "pending"
  /\ Len(adminOrders.orders) = 3
  /\ Len(adminOrders.filteredOrders) = 2

(***************************************************************************)
(* Properties of the messages.                                             *)
(***************************************************************************)
ReadersOf(message) == { message.readBy[i] : i \in 1..Len(message.readBy) }

\* A markMessageAsRead call of session s completes in this step.
MarkCompletes(s) ==
  /\ calls[s].pc = "write"
  /\ calls[s].op = "markMessageAsRead"
  /\ calls'[s] = IdleCall("ok")

\* When a call completes, its user is in the readBy list of its message.
ReaderListed ==
  \A s \in Sessions :
    MarkCompletes(s) =>
      \A i \in DOMAIN messages' :
        messages'[i].id = calls[s].args[1].messageId
          => calls[s].args[1].userId \in ReadersOf(messages'[i])

\* No readBy list holds a user twice.
NoReaderTwice ==
  \A i \in DOMAIN messages' :
    Cardinality(ReadersOf(messages'[i])) = Len(messages'[i].readBy)

\* Everyone in a readBy list stays in it, and the sender is in it.
ReadersKept ==
  /\ \A i \in DOMAIN messages : ReadersOf(messages[i]) \subseteq ReadersOf(messages'[i])
  /\ \A i \in DOMAIN messages' : messages'[i].senderId \in ReadersOf(messages'[i])

\* C22: a completed markMessageAsRead leaves its user in readBy; readBy
\* never holds a user twice and never loses the sender or an earlier
\* reader, whatever the interleaving of the calls.
C22_ReadByKeepsEveryReader ==
  [][ReaderListed /\ NoReaderTwice /\ ReadersKept]_vars

(***************************************************************************)
(* Properties of the upload observable.                                    *)
(***************************************************************************)
IsSuccessEvent(e) == e.kind = "next" /\ e.state = "success"

\* C23: what the subscriber has received is a run of events without a
\* download URL, then possibly the success event (progress 100, with the
\* download URL) with the completion right behind it, or an error; a
\* download URL comes at most once and nothing comes after a completion
\* or an error.
C23_UploadEventProtocol ==
  LET events == upload.events
      n == Len(events)
  IN /\ \A i \in 1..n :
          /\ events[i].kind \in {"error", "complete"} => i = n
          /\ events[i].kind = "complete" => i > 1 /\ IsSuccessEvent(events[i - 1])
          /\ IsSuccessEvent(events[i])
               => /\ events[i].progress = 100
                  /\ events[i].downloadURL # << >>
                  /\ i = n - 1
                  /\ events[n].kind = "complete"
          /\ events[i].downloadURL # << >> => IsSuccessEvent(events[i])
     /\ Cardinality({ i \in 1..n : events[i].downloadURL # << >> }) =< 1
     /\ upload.pc = "closed" => n > 0 /\ events[n].kind \in {"error", "complete"}

\* An upload with progress events, among them a paused one, has succeeded.
C23_Witness ==
  /\ upload.pc = "closed"
  /\ Len(upload.events) > 3
  /\ upload.events[Len(upload.events)].kind = "complete"
  /\ \E i \in 1..Len(upload.events) : upload.events[i].state = "paused"

(***************************************************************************)
(* Properties of the addon selection.                                      *)
(***************************************************************************)
\* Every addon of the list is an addon of the category, with its price.
AddonsOfCategory(addons, categoryId) ==
  /\ categoryId \in StructureCategoryIds
  /\ \A i \in 1..Len(addons) :
       \E j \in 1..Len(CATEGORY_PRICING[categoryId].addons) :
         /\ CATEGORY_PRICING[categoryId].addons[j].id = addons[i].id
         /\ CATEGORY_PRICING[categoryId].addons[j].price = addons[i].price

\* In the form, in the submitted order data and in the stored orders, the
\* addons are addons of the structure category they come with.
AddonsMatchCategory ==
  /\ page = "new-order"
       => AddonsOfCategory(newOrder.selectedAddons, newOrder.selectedStructureCategory)
  /\ \A i \in 1..Len(orderReview.orderData) :
       AddonsOfCategory(orderReview.orderData[i].addons,
                        orderReview.orderData[i].structureCategory)
  /\ \A o \in DOMAIN orders :
       AddonsOfCategory(orders[o].addons, orders[o].structureCategory)

\* A change of the structure category in the form loads the addon list of
\* the new category and empties the selection.
CategoryChangeClearsAddons ==
  (/\ page = "new-order" /\ page' = "new-order"
   /\ newOrder'.selectedStructureCategory # newOrder.selectedStructureCategory)
    => /\ newOrder'.selectedAddons = << >>
       /\ newOrder'.addons = CATEGORY_PRICING[newOrder'.selectedStructureCategory].addons

\* C24: the selected addons always belong to the addon list of the
\* selected structure category, a change of category reloads the list and
\* clears the selection, and no submitted or stored order carries addons
\* or addon prices of another category than its own.
C24_AddonsBelongToCategory ==
  []AddonsMatchCategory /\ [][CategoryChangeClearsAddons]_vars

\* An order of the moderate category with an addon is stored, and the form
\* is open again on the basic category with an addon selected.
C24_Witness ==
  /\ \E o \in DOMAIN orders :
       orders[o].structureCategory = "moderate" /\ orders[o].addons # << >>
  /\ page = "new-order"
  /\ newOrder.selectedStructureCategory = "basic"
  /\ newOrder.selectedAddons # << >>

(***************************************************************************)
(* StorageService: file validation.                                        *)
(* A MIME type is the sequence of its parts between "/" (type.split('/')); *)
(* a File is its type and its size in bytes.                               *)
(***************************************************************************)
\* Array.prototype.join
RECURSIVE join(_, _)
join(texts, separator) ==
  IF Len(texts) = 0 THEN ""
  ELSE IF Len(texts) = 1 THEN texts[1]
  ELSE texts[1] \o separator \o join(Tail(texts), separator)

MimeText(type) == join(type, "/")

\* type.endsWith('/*')
IsWildcard(type) == Len(type) >= 2 /\ type[Len(type)] = "*"

\* file.type.startsWith(prefix + '/')
StartsWithPrefix(fileType, prefix) == Len(fileType) >= 2 /\ fileType[1] = prefix

validateFileType(file, allowedTypes) ==
  \E i \in 1..Len(allowedTypes) :
    IF IsWildcard(allowedTypes[i])
    THEN StartsWithPrefix(file.type, allowedTypes[i][1])
    ELSE file.type = allowedTypes[i]

validateFileSize(file, maxSizeInMB) == file.size <= maxSizeInMB * 1024 * 1024

InvalidFileType(allowedTypes) ==
  "Invalid file type. Allowed types: "
    \o join([i \in 1..Len(allowedTypes) |-> MimeText(allowedTypes[i])], ", ")

FileSizeExceeds(maxSizeInMB) == "File size exceeds " \o ToString(maxSizeInMB) \o "MB limit"

\* Faulty variant: the size is tested before the type.
validateFileSizeFirst(file, allowedTypes, maxSizeInMB) ==
  IF ~validateFileSize(file, maxSizeInMB)
  THEN [valid |-> FALSE, error |-> << FileSizeExceeds(maxSizeInMB) >>]
  ELSE IF ~validateFileType(file, allowedTypes)
  THEN [valid |-> FALSE, error |-> << InvalidFileType(allowedTypes) >>]
  ELSE [valid |-> TRUE, error |-> << >>]

validateFile(file, allowedTypes, maxSizeInMB) ==
  IF ~validateFileType(file, allowedTypes)
  THEN [valid |-> FALSE, error |-> << InvalidFileType(allowedTypes) >>]
  ELSE IF ~validateFileSize(file, maxSizeInMB)
  THEN [valid |-> FALSE, error |-> << FileSizeExceeds(maxSizeInMB) >>]
  ELSE [valid |-> TRUE, error |-> << >>]

validateImageFile(file) ==
  validateFile(file,
               << << "image", "jpeg" >>, << "image", "png" >>, << "image", "jpg" >>,
                  << "image", "webp" >> >>,
               10)

validateDocumentFile(file) ==
  validateFile(file,
               << << "application", "pdf" >>, << "application", "msword" >>,
                  << "application",
                     "vnd.openxmlformats-officedocument.wordprocessingml.document" >> >>,
               20)

validateDesignFile(file) ==
  validateFile(file,
               << << "application", "pdf" >>, << "image", "jpeg" >>, << "image", "png" >>,
                  << "image", "jpg" >>, << "application", "dwg" >>,
                  << "application", "dxf" >>, << "application", "zip" >> >>,
               50)

\* A caller validates a chosen file with one of the presets.
ValidateImageFile(file) ==
  /\ validation' = [preset |-> "validateImageFile", file |-> << file >>,
                    result |-> << validateImageFile(file) >>]
  /\ UNCHANGED << storeVars, formVars, authVars, navVars, queryVars, adminOrders, upload >>

ValidateDocumentFile(file) ==
  /\ validation' = [preset |-> "validateDocumentFile", file |-> << file >>,
                    result |-> << validateDocumentFile(file) >>]
  /\ UNCHANGED << storeVars, formVars, authVars, navVars, queryVars, adminOrders, upload >>

ValidateDesignFile(file) ==
  /\ validation' = [preset |-> "validateDesignFile", file |-> << file >>,
                    result |-> << validateDesignFile(file) >>]
  /\ UNCHANGED << storeVars, formVars, authVars, navVars, queryVars, adminOrders, upload >>

(***************************************************************************)
(* The validation presets applied to files of every listed type, of a few  *)
(* types no preset lists (one of them in upper case, one empty), and of    *)
(* sizes around each preset's limit.                                       *)
(***************************************************************************)
FileTypes ==
  { << "image", "jpeg" >>, << "image", "png" >>, << "image", "jpg" >>,
    << "image", "webp" >>, << "image", "gif" >>, << "IMAGE", "JPEG" >>,
    << "application", "pdf" >>, << "application", "msword" >>,
    << "application", "vnd.openxmlformats-officedocument.wordprocessingml.document" >>,
    << "application", "dwg" >>, << "application", "dxf" >>, << "application", "zip" >>,
    << "text", "plain" >>, << "" >> }

FileSizes ==
  {0} \cup { m * 1024 * 1024 + d : m \in {10, 20, 50}, d \in {-1, 0, 1} }

Files == [type : FileTypes, size : FileSizes]

ValidateNext ==
  \/ \E file \in Files : ValidateImageFile(file)
  \/ \E file \in Files : ValidateDocumentFile(file)
  \/ \E file \in Files : ValidateDesignFile(file)

InitValidate ==
  /\ StoreInit /\ FormInit /\ AuthInit /\ NavInit /\ PageInit
  /\ persisted = None
  /\ authGuardVersion = "auth.guard.ts"

SpecValidate == InitValidate /\ [][ValidateNext]_vars

(***************************************************************************)
(* Properties of the file validation presets.                              *)
(***************************************************************************)
\* The presets as stated: the listed MIME types and the limit in MB.
StatedPresets ==
  [validateImageFile |->
     [types |-> << << "image", "jpeg" >>, << "image", "png" >>, << "image", "jpg" >>,
                   << "image", "webp" >> >>,
      limitMB |-> 10],
   validateDocumentFile |->
     [types |-> << << "application", "pdf" >>, << "application", "msword" >>,
                   << "application",
                      "vnd.openxmlformats-officedocument.wordprocessingml.document" >> >>,
      limitMB |-> 20],
   validateDesignFile |->
     [types |-> << << "application", "pdf" >>, << "image", "jpeg" >>, << "image", "png" >>,
                   << "image", "jpg" >>, << "application", "dwg" >>,
                   << "application", "dxf" >>, << "application", "zip" >> >>,
      limitMB |-> 50]]

TypeListed(file, preset) ==
  \E i \in 1..Len(StatedPresets[preset].types) : StatedPresets[preset].types[i] = file.type

SizeWithinLimit(file, preset) == file.size <= StatedPresets[preset].limitMB * 1024 * 1024

SizeAtLimit(file, preset) == file.size = StatedPresets[preset].limitMB * 1024 * 1024

\* C25: a preset accepts a file exactly when the file's MIME type is in the
\* preset's list and its size is at most the preset's limit; a listed file
\* exactly at the limit is accepted; and when both the type and the size are
\* invalid the reported error is the file-type error.
C25_PresetsAcceptListedTypesWithinLimit ==
  validation.preset # None =>
    LET preset == validation.preset
        file   == validation.file[1]
        result == validation.result[1]
    IN /\ result.valid <=> (TypeListed(file, preset) /\ SizeWithinLimit(file, preset))
       /\ (TypeListed(file, preset) /\ SizeAtLimit(file, preset)) => result.valid
       /\ (~TypeListed(file, preset) /\ ~SizeWithinLimit(file, preset))
            => result.error = << InvalidFileType(StatedPresets[preset].types) >>

\* A file of a type the document preset does not list, one byte over the
\* preset's 20 MB, has been validated and refused.
C25_Witness ==
  /\ validation.preset = "validateDocumentFile"
  /\ validation.file = << [type |-> << "image", "png" >>, size |-> 20 * 1024 * 1024 + 1] >>
  /\ ~validation.result[1].valid

\* A listed file exactly at the limit of the image preset has been accepted.
C25_WitnessAtLimit ==
  /\ validation.preset = "validateImageFile"
  /\ validation.file = << [type |-> << "image", "webp" >>, size |-> 10 * 1024 * 1024] >>
  /\ validation.result[1].valid

====
